---------------------------- MODULE Spec2Model ----------------------------
(***************************************************************************)
(* A model of the pants build core of twitter-commons:                     *)
(*   - graph/build_graph.py    BuildGraph and sort_targets                 *)
(*   - base/target.py          exclusives propagation                      *)
(*   - goal/group.py           Group.compute_exclusives_chunks             *)
(*   - tasks/check_exclusives.py  CheckExclusives.execute                  *)
(*   - goal/work_unit.py, goal/run_tracker.py  the work-unit tree          *)
(*   - cache/*.py              the artifact caches                         *)
(*   - tasks/scala_compile.py, tasks/java_compile.py  the compile tasks    *)
(* Each subsystem has its own specification (SpecGraph, SpecSort, ...)     *)
(* over the shared variables; the variables of the other subsystems stay   *)
(* at their idle values.                                                   *)
(***************************************************************************)
EXTENDS Integers, Sequences, FiniteSets, TLC

(***************************************************************************)
(* Bounds of the model.                                                    *)
(***************************************************************************)
\* number of distinct addresses / targets
NumTargets == 3
\* longest dependency list of one target
MaxDeps == 2
\* longest list of targets handed to sort_targets, compute_exclusives_chunks
\* and CheckExclusives.execute
MaxInput == 3
\* number of exclusives keys
NumKeys == 2
\* exclusives values are 0..MaxValue
MaxValue == 1
\* number of work units of one run, the root included
MaxUnits == 3
\* number of workspaces writing to one local artifact cache
NumWriters == 2
\* longest list of paths handed to insert / try_insert
MaxPaths == 2
\* number of partitions of one compile run
NumPartitions == 3
\* number of work units a report is told about
MaxReportUnits == 2
\* number of reporters of a report
NumReporters == 2
\* number of strings written to a report
MaxWrites == 3
\* number of bytes written to a read-write buffer
MaxBytes == 4
\* length of the longest string written to, and largest size read from, a buffer
MaxChunk == 2
\* number of argument tuples submitted to a worker pool
MaxTasks == 3
\* number of threads of a worker pool
NumWorkers == 2
\* number of partition axes of the exclusives groups
NumAxes == 2
\* number of elements added to the classpaths of the groups
MaxAdds == 2
\* number of callers of stop() on one thread
NumStoppers == 2
\* number of phases
NumPhases == 3
\* number of Group.execute calls made from outside
MaxExecutes == 2
\* number of target calls in a manifest
MaxCalls == 2
\* number of calls of parse_build_file and add_build_file_spec made on a parser
MaxParses == 2
\* number of targets of the partition that is merged, compiled and split
PartitionSize == 2
\* number of times the partition is compiled
MaxRounds == 2

Targets == 1..NumTargets

\* The sequences over S of length at most n.
SeqsUpTo(S, n) == UNION {[1..k -> S] : k \in 0..n}

\* The sequences over S of length at most n that repeat no element
\* (an OrderedSet / an iteration over a set).
SeqsNoDup(S, n) ==
  {s \in SeqsUpTo(S, n) : \A i, j \in 1..Len(s) : i # j => s[i] # s[j]}

Range(s) == {s[i] : i \in 1..Len(s)}

VARIABLES
  \* ---- BuildGraph (graph/build_graph.py) ----
  target_by_address,              \* the addresses mapped in _target_by_address
  target_dependencies_by_address, \* address -> set of addresses
  target_dependents_by_address,   \* address -> set of addresses
  graph_result,                   \* the outcome of the last BuildGraph call
  \* ---- sort_targets (graph/build_graph.py) ----
  dependencies,                   \* target -> its dependencies, in order
  sort_input,                     \* the list handed to sort_targets
  sort_result,                    \* what sort_targets returned or raised
  \* ---- exclusives (base/target.py, goal/group.py, tasks/check_exclusives.py) ----
  declared_exclusives,            \* target -> key -> declared values
  exclusives,                     \* target -> None, or key -> computed values
  chunks_result,                  \* what compute_exclusives_chunks returned
  execute_result,                 \* how CheckExclusives.execute ended
  \* ---- work units (goal/work_unit.py, goal/run_tracker.py) ----
  workunits,                      \* the WorkUnit objects, in creation order
  current_workunit,               \* RunTracker._current_workunit (0: None)
  scopes,                         \* the units of the open new_workunit scopes
  raised,                         \* the exception leaving the last closed scope
  closed,                         \* RunTracker.close() has run
  last_exit,                      \* history: what the last scope exit did
  last_set_outcome,               \* history: the last set_outcome call
  outcome_set,                    \* history: units an outcome was set on
  min_outcome_set,                \* history: the least outcome ever set
  \* ---- artifact caches (cache/*.py) ----
  cache_fs,                       \* file path -> content (<<>>: no such file)
  cache_dirs,                     \* which of the key's tmp and final dirs exist
  read_only,                      \* ArtifactCache.read_only
  cache_calls,                    \* workspace -> its insert / try_insert call
  cache_log,                      \* number of log.error calls
  last_use,                       \* history: the last use_cached_files call
  \* ---- compile tasks (tasks/scala_compile.py, tasks/java_compile.py) ----
  compile_task,                   \* the task and its options
  partitions,                     \* partition -> its targets' state on disk
  compile_pc,                     \* where execute is, and the partition it is to process
  cp,                             \* the 'classpath' state: a list of (conf, entry)
  upstream_analysis_map,          \* classes_dir -> analysis_file
  updated,                        \* the partitions vts.update() was called for, in order
  process_log,                    \* history: partition -> what its processing did
  \* ---- merge and split of a partition (tasks/scala_compile.py) ----
  disk,                           \* the merged and the per-target classes dirs and analyses
  split_pc,                       \* how far the partition is, and in which round
  split_log,                      \* history: the inputs and results of the last round
  \* ---- Report (reporting/report.py) ----
  report_rwbufs,                  \* _rwbufs: work unit id -> its buffer, when registered
  report_current,                 \* the unit of _current_workunit_rwbuf, 0 for None
  report_reporters,               \* per reporter: what handle_output got, and closed
  report_emitter,                 \* the emitter thread: running, died or stopped
  report_log,                     \* history: what raised, and the buffers at close()
  \* ---- InMemoryRWBuf, FileBackedRWBuf (goal/read_write_buffer.py) ----
  buffer,                         \* the buffer: its class, its content and its positions
  rwbuf_log,                      \* history: the bytes written, returned and last returned
  \* ---- WorkerPool (base/worker_pool.py) over RunTracker.new_workunit ----
  pool_workunits,                 \* the work units created, in order
  pool_current,                   \* RunTracker._current_workunit
  pool_tasks,                     \* the invocations of the submitted work, in order
  pool_call,                      \* the submit call: its kind, its state and its result
  \* ---- BuildFileParser (base/build_file_parser.py) ----
  build_files,                    \* the workspace: manifest -> the target calls in it
  parser,                         \* the parser's three indices and _added_build_files
  parser_stack,                   \* the frames of add_build_file_spec, innermost last
  parser_log,                     \* history: the last call, its result, the parse counts
  \* ---- Group.execute (goal/group.py) over Context's lock (goal/context.py) ----
  group_phases,                   \* per phase: serialize, has goals, the phases it depends on
  group_context,                  \* the context: its lock, and the phases in executed
  group_stack,                    \* the frames of Group.execute, innermost last
  group_log,                      \* history: how the last call finished, who released the lock
  \* ---- ExclusivesMapping over ClassPath (tasks/jvm_compile/classpath.py) ----
  mapping_classpaths,             \* per group key: the elements of its classpath, in order
  mapping_compat,                 \* the last _is_compatible call and its result
  mapping_log,                    \* history: the base classpath and the additions, in order
  \* ---- Group._create_chunks (goal/group.py) ----
  create_result,                  \* what _create_chunks returned, and the exclusives chunks it computed
  \* ---- StoppableThread, PeriodicThread (common/threading/__init__.py) ----
  thread,                         \* the StoppableThread: its arguments, _stopped, and where it is in stoppable_target
  stoppers,                       \* per caller of stop(): where it is in stop()
  thread_log                      \* history: invocations of target begun after _stopped was set, and after stop() returned

graphVars == <<target_by_address, target_dependencies_by_address,
               target_dependents_by_address, graph_result>>
sortVars == <<dependencies, sort_input, sort_result>>
exclVars == <<declared_exclusives, exclusives, chunks_result, execute_result>>
workVars == <<workunits, current_workunit, scopes, raised, closed, last_exit,
              last_set_outcome, outcome_set, min_outcome_set>>
cacheVars == <<cache_fs, cache_dirs, read_only, cache_calls, cache_log, last_use>>
compileVars == <<compile_task, partitions, compile_pc, cp, upstream_analysis_map,
                 updated, process_log>>
splitVars == <<disk, split_pc, split_log>>
reportVars == <<report_rwbufs, report_current, report_reporters, report_emitter, report_log>>
rwbufVars == <<buffer, rwbuf_log>>
poolVars == <<pool_workunits, pool_current, pool_tasks, pool_call>>
parserVars == <<build_files, parser, parser_stack, parser_log>>
groupVars == <<group_phases, group_context, group_stack, group_log>>
mappingVars == <<mapping_classpaths, mapping_compat, mapping_log>>
chunkerVars == <<create_result>>
threadVars == <<thread, stoppers, thread_log>>
finalVars == <<groupVars, mappingVars, chunkerVars, threadVars>>
laterVars == <<reportVars, rwbufVars, poolVars, parserVars, finalVars>>
vars == <<graphVars, sortVars, exclVars, workVars, cacheVars, compileVars, splitVars, laterVars>>

\* what an action of one subsystem leaves alone
notGraph == <<sortVars, exclVars, workVars, cacheVars, compileVars, splitVars,
    laterVars>>
notSort == <<graphVars, exclVars, workVars, cacheVars, compileVars, splitVars,
    laterVars>>
notExcl == <<graphVars, sort_input, sort_result, workVars, cacheVars, compileVars,
             splitVars, laterVars>>
notWork == <<graphVars, sortVars, exclVars, cacheVars, compileVars, splitVars,
    laterVars>>
notCache == <<graphVars, sortVars, exclVars, workVars, compileVars, splitVars,
    laterVars>>
notCompile == <<graphVars, sortVars, exclVars, workVars, cacheVars, splitVars,
    laterVars>>
notSplit == <<graphVars, sortVars, exclVars, workVars, cacheVars, compileVars, laterVars>>
earlierVars == <<graphVars, sortVars, exclVars, workVars, cacheVars, compileVars, splitVars>>
notReport == <<earlierVars, rwbufVars, poolVars, parserVars, finalVars>>
notRWBuf == <<earlierVars, reportVars, poolVars, parserVars, finalVars>>
notPool == <<earlierVars, reportVars, rwbufVars, parserVars, finalVars>>
notParser == <<earlierVars, reportVars, rwbufVars, poolVars, finalVars>>
midVars == <<reportVars, rwbufVars, poolVars, parserVars>>
notGroup == <<earlierVars, midVars, mappingVars, chunkerVars, threadVars>>
notMapping == <<earlierVars, midVars, groupVars, chunkerVars, threadVars>>
notChunker == <<earlierVars, midVars, groupVars, mappingVars, threadVars>>
notThread == <<earlierVars, midVars, groupVars, mappingVars, chunkerVars>>

Keys == 1..NumKeys
\* The exclusives values; value 0 is the string "none".
Values == 0..MaxValue

(***************************************************************************)
(* Idle values of each subsystem.                                          *)
(***************************************************************************)
GraphIdle ==
  /\ target_by_address = {}
  /\ target_dependencies_by_address = [a \in Targets |-> {}]
  /\ target_dependents_by_address = [a \in Targets |-> {}]
  /\ graph_result = [op |-> "none", address |-> 0, err |-> ""]

SortIdle ==
  /\ dependencies = [t \in Targets |-> <<>>]
  /\ sort_input = <<>>
  /\ sort_result = [status |-> "none", list |-> <<>>]

\* t.exclusives = None
NoExclusives == [isNone |-> TRUE, map |-> [k \in Keys |-> {}]]

ExclIdle ==
  /\ declared_exclusives = [t \in Targets |-> [k \in Keys |-> {}]]
  /\ exclusives = [t \in Targets |-> NoExclusives]
  /\ chunks_result = [status |-> "none", targets |-> <<>>, chunks |-> {}]
  /\ execute_result = [status |-> "none", targets |-> <<>>, signal_error |-> FALSE,
                       warnings |-> 0]

\* The outcome of a workunit.
ABORTED == 0
FAILURE == 1
WARNING == 2
SUCCESS == 3
UNKNOWN == 4
Outcomes == {ABORTED, FAILURE, WARNING, SUCCESS, UNKNOWN}

\* WorkUnit.__init__: the outcome starts UNKNOWN; the unit is not ended.
NewWorkUnit(parent) ==
  [parent |-> parent, outcome |-> UNKNOWN, ended |-> FALSE, reported_end |-> FALSE]

\* RunTracker.__init__: the root work unit is created and made current.
WorkIdle ==
  /\ workunits = <<NewWorkUnit(0)>>
  /\ current_workunit = 1
  /\ scopes = <<>>
  /\ raised = "none"
  /\ closed = FALSE
  /\ last_exit = [unit |-> 0, kind |-> "none", applied_to |-> 0, outcome |-> UNKNOWN,
                  restored |-> 0, reraised |-> "none"]
  /\ last_set_outcome = [unit |-> 0, outcome |-> UNKNOWN, before |-> UNKNOWN]
  /\ outcome_set = {}
  /\ min_outcome_set = UNKNOWN

\* The workspaces: each has its own artifact root and its own LocalArtifactCache
\* object; all the caches share one cache root.
Writers == 1..NumWriters

\* Paths are sequences of path components.  The files of a directory tree,
\* relative to its top.
RelFiles == {<<"a">>, <<"d", "b">>}

\* artifact_root of workspace w
ArtifactRoot(w) == <<"ws" \o ToString(w)>>

\* The one cache key of the model, a CacheKey(id, hash).
CacheKey == [id |-> "t", hash |-> "h"]

\* LocalArtifactCache._cache_root
CacheRoot == <<"cache">>

\* LocalArtifactCache._cache_dir_for_key
CacheDirForKey(cache_key) == CacheRoot \o <<cache_key.id, cache_key.hash>>

\* A slip: the artifact is collected in place.
CacheDirInPlace(cache_dir) == cache_dir

\* cache_dir_tmp = cache_dir + '.tmp'
CacheDirTmp(cache_dir) ==
  SubSeq(cache_dir, 1, Len(cache_dir) - 1) \o <<cache_dir[Len(cache_dir)] \o ".tmp">>

\* The content of a file nobody wrote.
NoFile == <<>>

\* What the build of workspace w left in the file at rel under its artifact root;
\* "0" marks the files of an artifact cached by an earlier run.
BuiltContent(w, rel) == <<ToString(w)>> \o rel

FilePaths ==
  {ArtifactRoot(w) \o rel : w \in Writers, rel \in RelFiles}
    \cup {CacheDirForKey(CacheKey) \o rel : rel \in RelFiles}
    \cup {CacheDirTmp(CacheDirForKey(CacheKey)) \o rel : rel \in RelFiles}

\* The file system when every workspace is built and the cache is empty.
BuiltWorkspaces ==
  [p \in FilePaths |->
     IF \E w \in Writers : p[1] = ArtifactRoot(w)[1]
     THEN BuiltContent(CHOOSE w \in Writers : p[1] = ArtifactRoot(w)[1], Tail(p))
     ELSE NoFile]

\* No insert or try_insert call has been made by a workspace.
NoCall ==
  [pc |-> "idle", mode |-> "none", paths |-> <<>>, i |-> 0, todo |-> {},
   result |-> "none", expected |-> [rel \in RelFiles |-> NoFile]]

\* Every workspace is built, the cache holds nothing and nothing was called.
CacheIdle ==
  /\ cache_fs = BuiltWorkspaces
  /\ cache_dirs = {}
  /\ read_only = FALSE
  /\ cache_calls = [w \in Writers |-> NoCall]
  /\ cache_log = 0
  /\ last_use = [writer |-> 0, was_empty |-> FALSE, result |-> "none", after |-> "none"]

\* The partitions of a compile run, in the order execute processes them.
Partitions == 1..NumPartitions

\* What the processing of a partition did: nothing yet.
NotProcessed ==
  [status |-> "pending", steps |-> <<>>, classpath |-> <<>>, upstream |-> {},
   exit_code |-> 0]

\* No compile task runs.
CompileIdle ==
  /\ compile_task = [task |-> "none", dry_run |-> FALSE, write_to_artifact_cache |-> FALSE]
  /\ partitions = [p \in Partitions |->
                     [valid |-> TRUE, has_sources |-> FALSE, analysis_exists |-> FALSE]]
  /\ compile_pc = [at |-> "idle", partition |-> 0]
  /\ cp = <<>>
  /\ upstream_analysis_map = {}
  /\ updated = <<>>
  /\ process_log = [p \in Partitions |-> NotProcessed]

\* The targets of the partition, in the order of vts.targets.
SplitTargets == 1..PartitionSize

\* The packages of the class files.
Packages == {"p", "q"}

\* A class file: the package directory it is in and the target whose sources
\* the analysis attributes it to.
ClassFiles == [pkg : Packages, owner : SplitTargets]

\* The content of a class file that is not there; a file written by the
\* compile of round r has content r, one of an earlier run has content 0.
NoClass == -1

NoClasses == [cls \in ClassFiles |-> NoClass]

\* A classes dir that does not exist.
NoDir == [exists |-> FALSE, files |-> NoClasses, dirs |-> {}]

\* An analysis file that does not exist.
NoAnalysis == [exists |-> FALSE, products |-> {}]

\* Nothing of the partition is on disk.
EmptyDisk ==
  [merged |-> [exists |-> FALSE, files |-> NoClasses, dirs |-> {},
               links |-> [g \in Packages |-> 0]],
   merged_analysis |-> NoAnalysis,
   targets |-> [t \in SplitTargets |-> NoDir],
   target_analysis |-> [t \in SplitTargets |-> NoAnalysis]]

NoRound ==
  [after_compile |-> NoClasses, classes_by_target |-> [t \in SplitTargets |-> {}],
   new_or_changed |-> {}, remerged |-> NoClasses]

SplitIdle ==
  /\ disk = EmptyDisk
  /\ split_pc = [at |-> "idle", round |-> 0]
  /\ split_log = NoRound

\* The work units a report is told about; unit 1 is the root work unit and
\* the parent of every other one.
ReportUnits == 1..MaxReportUnits

Reporters == 1..NumReporters

\* The strings written to a report.
Strings == {"a", "b"}

\* A work unit the report has no buffer for.
NoBuffer == [registered |-> FALSE, written |-> <<>>, readpos |-> 0]

\* A reporter that got nothing yet.
NewReporter ==
  [delivered |-> [u \in ReportUnits |-> <<>>], closed |-> FALSE, after_close |-> FALSE]

NoReportLog ==
  [raised |-> "none", closed |-> FALSE, started |-> {},
   written |-> [u \in ReportUnits |-> <<>>],
   written_at_close |-> [u \in ReportUnits |-> <<>>], open_at_close |-> {}]

ReportIdle ==
  /\ report_rwbufs = [u \in ReportUnits |-> NoBuffer]
  /\ report_current = 0
  /\ report_reporters = [r \in Reporters |-> NewReporter]
  /\ report_emitter = "running"
  /\ report_log = NoReportLog

\* The bytes written to a read-write buffer.
Bytes == {"x", "y"}

\* No buffer has been constructed.
RWBufIdle ==
  /\ buffer = [class |-> "none", io |-> <<>>, readpos |-> 0, writepos |-> 0]
  /\ rwbuf_log = [written |-> <<>>, returned |-> <<>>, last |-> <<>>, size |-> 0,
                  reads |-> 0, returned_before |-> 0, written_before |-> 0]

\* No work has been submitted to the pool.
NoSubmit ==
  [kind |-> "none", workunit_name |-> FALSE, state |-> "idle", result |-> <<>>,
   callback_calls |-> <<>>]

\* The pool is constructed; the submitter's work unit is the current one.
PoolIdle ==
  /\ pool_workunits = <<[parent |-> 0, ended |-> FALSE, ended_by |-> 0]>>
  /\ pool_current = 1
  /\ pool_tasks = <<>>
  /\ pool_call = NoSubmit

\* The directories of the workspace and the manifests in them: BUILD.x is a
\* sibling manifest of BUILD in directory a.
ParserDirs == {"a", "b", "c"}

Manifests ==
  {[dir |-> d, file |-> "BUILD"] : d \in ParserDirs} \cup {[dir |-> "a", file |-> "BUILD.x"]}

\* The target names used in the manifests.
Names == {"x", "y", "z"}

\* The name of the target that call number i of a manifest declares.
NameAt(i) == <<"x", "y", "z">>[i]

\* Address: the path of the manifest's directory and the target name.
Addresses == [path : ParserDirs, name : Names]

\* No proxy is stored for an address.
NoProxy == [target_type |-> "none"]

\* BuildFileParser.__init__: empty indices, nothing parsed.
NewParser ==
  [proxy_by_address |-> [a \in Addresses |-> NoProxy],
   proxies_by_build_file |-> [bf \in Manifests |-> {}],
   addresses_by_build_file |-> [bf \in Manifests |-> {}],
   added_build_files |-> {}]

NoParserLog ==
  [op |-> "none", build_file |-> [dir |-> "a", file |-> "BUILD"], raised |-> "none",
   returned |-> [is_none |-> TRUE, proxies |-> {}], registered |-> {},
   before |-> NewParser, was_added |-> FALSE, calls |-> 0, serial |-> 0,
   root |-> [dir |-> "a", file |-> "BUILD"], start |-> {},
   parsed |-> [bf \in Manifests |-> 0], stored |-> {}]

ParserIdle ==
  /\ build_files = [bf \in Manifests |-> <<>>]
  /\ parser = NewParser
  /\ parser_stack = <<>>
  /\ parser_log = NoParserLog

\* The phases; a phase depends on phases with a smaller number only.
Phases == 1..NumPhases

\* Lock.unlocked(); owner is the depth of the frame that acquired the lock.
Unlocked == [held |-> FALSE, owner |-> 0]

NoGroupLog ==
  [calls |-> 0, how |-> "none", acquired |-> FALSE, held_after |-> FALSE,
   foreign_release |-> FALSE, nested_kept |-> FALSE]

GroupIdle ==
  /\ group_phases = [p \in Phases |-> [serialize |-> FALSE, goals |-> FALSE, deps |-> <<>>]]
  /\ group_context = [lock |-> Unlocked, executed |-> {}]
  /\ group_stack = <<>>
  /\ group_log = NoGroupLog

\* The partition axes, the values on an axis and the group keys: a key has
\* one value, or "<none>", for each axis.
Axes == 1..NumAxes

AxisValues == {"1", "2", "<none>"}

GroupKeys == [Axes -> AxisValues]

\* Elements of the base classpaths and elements that are added.
BaseElements == {"b1", "b2"}

AddedElements == {"b1", "e1", "e2"}

NoCompat == [called |-> FALSE, mod_key |-> [k \in Axes |-> "<none>"],
             other_key |-> [k \in Axes |-> "<none>"], result |-> FALSE]

NoMappingLog == [base |-> <<>>, added |-> <<>>]

MappingIdle ==
  /\ mapping_classpaths = [g \in GroupKeys |-> <<>>]
  /\ mapping_compat = NoCompat
  /\ mapping_log = NoMappingLog

NoCreateResult == [status |-> "none", targets |-> <<>>, excl_chunks |-> {}, all_chunks |-> <<>>]

ChunkerIdle == create_result = NoCreateResult

\* The callers of stop().
Stoppers == 1..NumStoppers

\* A thread that has not been constructed.
NoThread ==
  [class |-> "none", post_target |-> FALSE, args |-> FALSE, stopped |-> FALSE, pc |-> "new"]

NoThreadLog == [begun_after_stop |-> 0, begun_after_return |-> FALSE]

ThreadIdle ==
  /\ thread = NoThread
  /\ stoppers = [c \in Stoppers |-> "idle"]
  /\ thread_log = NoThreadLog

FinalIdle == GroupIdle /\ MappingIdle /\ ChunkerIdle /\ ThreadIdle

\* Every subsystem after the merge and split of a partition is idle.
LaterIdle == ReportIdle /\ RWBufIdle /\ PoolIdle /\ ParserIdle /\ FinalIdle

\* Every subsystem up to the merge and split of a partition is idle.
EarlierIdle ==
  GraphIdle /\ SortIdle /\ ExclIdle /\ WorkIdle /\ CacheIdle /\ CompileIdle /\ SplitIdle
MidIdle == ReportIdle /\ RWBufIdle /\ PoolIdle /\ ParserIdle
GroupOthersIdle == EarlierIdle /\ MidIdle /\ MappingIdle /\ ChunkerIdle /\ ThreadIdle
MappingOthersIdle == EarlierIdle /\ MidIdle /\ GroupIdle /\ ChunkerIdle /\ ThreadIdle
ChunkerOthersIdle == EarlierIdle /\ MidIdle /\ GroupIdle /\ MappingIdle /\ ThreadIdle
ThreadOthersIdle == EarlierIdle /\ MidIdle /\ GroupIdle /\ MappingIdle /\ ChunkerIdle

(***************************************************************************)
(* BuildGraph                                                              *)
(***************************************************************************)
\* The graph as one value, threaded through the calls of a handler.
\* err # "": an AssertionError (with that cause) is propagating.
Graph ==
  [tba |-> target_by_address,
   deps |-> target_dependencies_by_address,
   dependents |-> target_dependents_by_address,
   err |-> ""]

\* self._target_dependencies_by_address[dependent].add(dependency)
AddDependency(deps, dependent, dependency) ==
  [deps EXCEPT ![dependent] = @ \cup {dependency}]

\* A slip in the reverse index: keyed by the dependent instead of the dependency.
AddDependentSwapped(dependents, dependent, dependency) ==
  [dependents EXCEPT ![dependent] = @ \cup {dependency}]

\* self._target_dependents_by_address[dependency].add(dependent)
AddDependent(dependents, dependent, dependency) ==
  [dependents EXCEPT ![dependency] = @ \cup {dependent}]

\* BuildGraph.inject_dependency on the graph value g.
InjectDependency(g, dependent, dependency) ==
  IF g.err # "" THEN g
  ELSE IF dependent \notin g.tba THEN [g EXCEPT !.err = "dependent not in graph"]
  ELSE IF dependency \notin g.tba THEN [g EXCEPT !.err = "dependency not in graph"]
  ELSE IF dependency \in g.deps[dependent] THEN g   \* logger.warn only
  ELSE [g EXCEPT !.deps = AddDependency(@, dependent, dependency),
                 !.dependents = AddDependent(@, dependent, dependency)]

\* for dependency_address in dependencies: self.inject_dependency(...)
RECURSIVE InjectDependencies(_, _, _)
InjectDependencies(g, address, ds) ==
  IF ds = <<>> THEN g
  ELSE InjectDependencies(InjectDependency(g, address, Head(ds)), address, Tail(ds))

\* BuildGraph.inject_target on the graph value g; ds is the order in which
\* the iterable `dependencies` is walked.
InjectTarget(g, address, ds) ==
  IF address \in g.tba THEN [g EXCEPT !.err = "address already in graph"]
  ELSE InjectDependencies([g EXCEPT !.tba = @ \cup {address}], address, ds)

StoreGraph(g, op, address) ==
  /\ target_by_address' = g.tba
  /\ target_dependencies_by_address' = g.deps
  /\ target_dependents_by_address' = g.dependents
  /\ graph_result' = [op |-> op, address |-> address, err |-> g.err]

inject_target(address, ds) ==
  /\ StoreGraph(InjectTarget(Graph, address, ds), "inject_target", address)
  /\ UNCHANGED notGraph

inject_dependency(dependent, dependency) ==
  /\ StoreGraph(InjectDependency(Graph, dependent, dependency),
                "inject_dependency", dependent)
  /\ UNCHANGED notGraph

InitGraph == GraphIdle /\ SortIdle /\ ExclIdle /\ WorkIdle /\ CacheIdle /\ CompileIdle /\ SplitIdle /\ LaterIdle

NextGraph ==
  \/ \E address \in Targets, ds \in SeqsNoDup(Targets, MaxDeps) :
        inject_target(address, ds)
  \/ \E dependent \in Targets, dependency \in Targets :
        inject_dependency(dependent, dependency)

SpecGraph == InitGraph /\ [][NextGraph]_vars

\* dependencies_of / dependents_of read the raw indices
dependencies_of(a) == target_dependencies_by_address[a]
dependents_of(a) == target_dependents_by_address[a]

\* C1: after any sequence of inject_target and inject_dependency calls,
\* failed ones included, the forward and the reverse index agree: b is a
\* dependency of a exactly when a is a dependent of b.
C1_IndicesAgree ==
  \A a, b \in Targets : b \in dependencies_of(a) <=> a \in dependents_of(b)

\* C1 witness: an inject_target that failed on a missing dependency after it
\* had mapped the new address and injected an edge from it.
C1_Witness ==
  /\ graph_result.op = "inject_target"
  /\ graph_result.err = "dependency not in graph"
  /\ \E b \in Targets :
       /\ b # graph_result.address
       /\ b \in dependencies_of(graph_result.address)
       /\ graph_result.address \in dependents_of(b)

(***************************************************************************)
(* sort_targets                                                            *)
(***************************************************************************)
\* OrderedSet.add: a member keeps its place.
OrderedSetAdd(s, x) == IF x \in Range(s) THEN s ELSE Append(s, x)

\* OrderedSet.remove
OrderedSetRemove(s, x) == SelectSeq(s, LAMBDA y : y # x)

\* list.index
IndexOf(s, x) == CHOOSE i \in 1..Len(s) : s[i] = x /\ \A j \in 1..(i - 1) : s[j] # x

\* A slip: the back-edge test is dropped.
OnPathNever(path, target) == FALSE

\* if target in path
OnPath(path, target) == target \in Range(path)

\* cycle = path_list[cycle_head:] + [target]
CyclePath(path, target) ==
  SubSeq(path, IndexOf(path, target), Len(path)) \o <<target>>

\* The state of the first pass of sort_targets.  cycle # <<>>: a
\* CycleException carrying that path is propagating.
InvertInit ==
  [roots |-> <<>>,
   inverted_deps |-> [t \in Targets |-> <<>>],
   visited |-> {},
   path |-> <<>>,
   cycle |-> <<>>]

RECURSIVE invert(_, _)
RECURSIVE InvertDependencies(_, _, _)

\* def invert(target)
invert(st, target) ==
  IF st.cycle # <<>> THEN st
  ELSE IF OnPath(st.path, target)
  THEN [st EXCEPT !.cycle = CyclePath(st.path, target)]
  ELSE
    LET st1 == [st EXCEPT !.path = OrderedSetAdd(@, target)]
        st2 == IF target \notin st1.visited
               THEN LET st3 == InvertDependencies(
                                 [st1 EXCEPT !.visited = @ \cup {target}],
                                 target, dependencies[target])
                    IN  \* the for loop has no break: its else clause always runs
                        IF st3.cycle # <<>> THEN st3
                        ELSE [st3 EXCEPT !.roots = OrderedSetAdd(@, target)]
               ELSE st1
    IN  IF st2.cycle # <<>> THEN st2
        ELSE [st2 EXCEPT !.path = OrderedSetRemove(@, target)]

\* for dependency in target.dependencies:
\*   inverted_deps[dependency].add(target); invert(dependency)
InvertDependencies(st, target, ds) ==
  IF st.cycle # <<>> \/ ds = <<>> THEN st
  ELSE InvertDependencies(
         invert([st EXCEPT !.inverted_deps[Head(ds)] = OrderedSetAdd(@, target)],
                Head(ds)),
         target, Tail(ds))

\* for target in targets: invert(target)
RECURSIVE InvertAll(_, _)
InvertAll(st, ts) ==
  IF st.cycle # <<>> \/ ts = <<>> THEN st
  ELSE InvertAll(invert(st, Head(ts)), Tail(ts))

\* A slip: the target is put in front of the list instead of at its end.
OrderedPrepend(ordered, target) == <<target>> \o ordered

\* ordered.append(target)
OrderedAppend(ordered, target) == Append(ordered, target)

RECURSIVE topological_sort(_, _)
RECURSIVE TopologicalSortEach(_, _)

\* def topological_sort(target)
topological_sort(st, target) ==
  IF target \notin st.visited
  THEN LET st1 == [st EXCEPT !.visited = @ \cup {target}]
           st2 == TopologicalSortEach(st1, st1.inverted_deps[target])
       IN  [st2 EXCEPT !.ordered = OrderedAppend(@, target)]
  ELSE st

\* for dep in inverted_deps[target]: topological_sort(dep)
\* for root in roots: topological_sort(root)
TopologicalSortEach(st, ts) ==
  IF ts = <<>> THEN st
  ELSE TopologicalSortEach(topological_sort(st, Head(ts)), Tail(ts))

\* def sort_targets(targets): what it returns or raises
sort_targets(targets) ==
  LET inv == InvertAll(InvertInit, targets)
  IN  IF inv.cycle # <<>>
      THEN [status |-> "CycleException", list |-> inv.cycle]
      ELSE LET st == TopologicalSortEach(
                       [visited |-> {}, ordered |-> <<>>,
                        inverted_deps |-> inv.inverted_deps],
                       inv.roots)
           IN  [status |-> "sorted", list |-> st.ordered]

\* One call of sort_targets on the drawn input.
SortTargets ==
  /\ sort_result.status = "none"
  /\ sort_result' = sort_targets(sort_input)
  /\ UNCHANGED <<dependencies, sort_input>>
  /\ UNCHANGED notSort

InitSort ==
  /\ GraphIdle
  /\ ExclIdle
  /\ WorkIdle
  /\ CacheIdle
  /\ CompileIdle
  /\ SplitIdle /\ LaterIdle
  /\ dependencies \in [Targets -> SeqsNoDup(Targets, MaxDeps)]
  /\ sort_input \in SeqsUpTo(Targets, MaxInput)
  /\ sort_result = [status |-> "none", list |-> <<>>]

NextSort == SortTargets

SpecSort == InitSort /\ [][NextSort]_vars

\* ---- the dependency relation, stated without the traversal ----
DependsOn(a, b) == b \in Range(dependencies[a])

RECURSIVE ClosureOf(_)
ClosureOf(S) ==
  LET next == S \cup {b \in Targets : \E a \in S : DependsOn(a, b)}
  IN  IF next = S THEN S ELSE ClosureOf(next)

\* the targets reachable from t by one or more dependency edges
StrictClosure(t) == ClosureOf({b \in Targets : DependsOn(t, b)})

CycleReachable(ts) == \E t \in ClosureOf(Range(ts)) : t \in StrictClosure(t)

\* C2: for an acyclic dependency relation sort_targets returns every target of
\* the transitive dependency closure of its input exactly once, and a target
\* comes before each of its dependencies (most dependent first).
C2_SortedOrder ==
  (sort_result.status # "none" /\ ~CycleReachable(sort_input)) =>
    LET l == sort_result.list IN
    /\ sort_result.status = "sorted"
    /\ Range(l) = ClosureOf(Range(sort_input))
    /\ \A i, j \in 1..Len(l) : i # j => l[i] # l[j]
    /\ \A i, j \in 1..Len(l) : DependsOn(l[i], l[j]) => i < j

\* C2 witness: a sorted result over three targets in which one target is a
\* dependency of the two others and the input names only part of the closure.
C2_Witness ==
  /\ sort_result.status = "sorted"
  /\ Len(sort_result.list) = 3
  /\ Len(sort_input) = 1
  /\ \E a, b, c \in Targets :
       /\ a # b /\ b # c /\ a # c
       /\ DependsOn(a, b) /\ DependsOn(a, c) /\ DependsOn(b, c)

\* C3: sort_targets raises CycleException exactly when a cycle is reachable
\* from its input, and the path it reports is a real cycle: it starts and ends
\* at the same target and each element depends on the next.
C3_CycleIff ==
  sort_result.status # "none" =>
    LET l == sort_result.list IN
    /\ (sort_result.status = "CycleException") <=> CycleReachable(sort_input)
    /\ sort_result.status = "CycleException" =>
         /\ Len(l) >= 2
         /\ l[1] = l[Len(l)]
         /\ \A i \in 1..(Len(l) - 1) : DependsOn(l[i], l[i + 1])

\* C3 witness: a cycle through two targets that is entered from a target
\* outside it, so that the reported path leaves out the head of the walk.
C3_Witness ==
  /\ sort_result.status = "CycleException"
  /\ Len(sort_result.list) = 3
  /\ sort_result.list[1] # sort_input[1]
  /\ sort_result.list[1] # sort_result.list[2]


(***************************************************************************)
(* Exclusives propagation (base/target.py, testutils/mock_target.py)       *)
(***************************************************************************)
\* A slip: the visit stops at the target itself.
NoDependencies(t) == <<>>

\* for dep in self.dependencies
DependenciesOf(t) == dependencies[t]

RECURSIVE walk(_)
RECURSIVE WalkEach(_)

\* MockTarget.walk: the targets handed to work, in order.  There is no walked
\* set: a target reached along two paths is handed over twice.
walk(t) == <<t>> \o WalkEach(DependenciesOf(t))

WalkEach(ds) ==
  IF ds = <<>> THEN <<>> ELSE walk(Head(ds)) \o WalkEach(Tail(ds))

\* Target.get_declared_exclusives
get_declared_exclusives(t) == declared_exclusives[t]

\* Target.add_to_exclusives: for key in exclusives: self.exclusives[key] |= exclusives[key]
add_to_exclusives(self_exclusives, more) ==
  [k \in Keys |-> IF more[k] # {} THEN self_exclusives[k] \cup more[k]
                  ELSE self_exclusives[k]]

\* self.walk(lambda t: self._propagate_exclusives_work(t)) over the visited list
RECURSIVE PropagateWork(_, _)
PropagateWork(self_exclusives, visited) ==
  IF visited = <<>> THEN self_exclusives
  ELSE PropagateWork(
         add_to_exclusives(self_exclusives, get_declared_exclusives(Head(visited))),
         Tail(visited))

\* Target.propagate_exclusives: the new value of self.exclusives
propagate_exclusives(t) ==
  [isNone |-> FALSE,
   map |-> PropagateWork([k \in Keys |-> {}], walk(t))]

\* Target.get_all_exclusives: propagates once, then returns the cached map.
get_all_exclusives(t) ==
  /\ exclusives' = [exclusives EXCEPT
                      ![t] = IF @.isNone THEN propagate_exclusives(t) ELSE @]
  /\ UNCHANGED <<dependencies, declared_exclusives, chunks_result, execute_result>>
  /\ UNCHANGED notExcl

\* Targets are built dependencies first, so the dependency relation is a DAG:
\* number the targets in construction order.  A declaration binds each key to
\* at most one value.
TargetsDrawn ==
  /\ dependencies \in
       {d \in [Targets -> SeqsNoDup(Targets, MaxDeps)] :
          \A t \in Targets : \A i \in 1..Len(d[t]) : d[t][i] < t}
  /\ declared_exclusives \in
       [Targets -> {e \in [Keys -> SUBSET Values] :
                      \A k \in Keys : Cardinality(e[k]) <= 1}]

InitExcl ==
  /\ GraphIdle
  /\ WorkIdle
  /\ CacheIdle
  /\ CompileIdle
  /\ SplitIdle /\ LaterIdle
  /\ sort_input = <<>>
  /\ sort_result = [status |-> "none", list |-> <<>>]
  /\ TargetsDrawn
  /\ exclusives = [t \in Targets |-> NoExclusives]
  /\ chunks_result = [status |-> "none", targets |-> <<>>, chunks |-> {}]
  /\ execute_result = [status |-> "none", targets |-> <<>>, signal_error |-> FALSE,
                       warnings |-> 0]

NextExcl == \E t \in Targets : get_all_exclusives(t)

SpecExcl == InitExcl /\ [][NextExcl]_vars

\* The multimap union of the declarations over t and its transitive
\* dependencies, stated without the walk.
UnionOverClosure(t) ==
  LET closure == ClosureOf({t})
  IN  [k \in Keys |-> UNION {declared_exclusives[d][k] : d \in closure}]

\* C4: get_all_exclusives(t) maps each key to exactly the union of the values
\* declared for it by t and by every target of t's transitive dependency
\* closure, for any dependency DAG.
C4_ExclusivesAreClosureUnion ==
  \A t \in Targets :
    ~exclusives[t].isNone => exclusives[t].map = UnionOverClosure(t)

\* C4 witness: a target whose two dependencies share a dependency (the shared
\* target is reached along two paths) and whose computed map holds two values
\* for one key, one of them declared only by the shared target.
C4_Witness ==
  \E t, b, c \in Targets :
    /\ t # b /\ b # c /\ t # c
    /\ DependsOn(t, b) /\ DependsOn(t, c) /\ DependsOn(b, c)
    /\ ~exclusives[t].isNone
    /\ \E k \in Keys :
         /\ Cardinality(exclusives[t].map[k]) = 2
         /\ declared_exclusives[t][k] = {}
         /\ declared_exclusives[b][k] # declared_exclusives[c][k]
         /\ declared_exclusives[b][k] # {}
         /\ declared_exclusives[c][k] # {}


(***************************************************************************)
(* Group.compute_exclusives_chunks (goal/group.py)                         *)
(***************************************************************************)
\* the string "none" that stands in for a missing value in a chunk key
NoneValue == 0

\* exclusives_map: for t in targets: if t.exclusives is not None:
\*   for k in t.exclusives: exclusives_map[k] |= t.exclusives[k]
ExclusivesMap(targets) ==
  [k \in Keys |->
     UNION {exclusives[t].map[k] : t \in {x \in Range(targets) : ~exclusives[x].isNone}}]

\* A slip: a key counts as conflicting only from three values on.
IsConflictingOffByOne(values) == Cardinality(values) > 2

\* if len(exclusives_map[k]) > 1
IsConflicting(values) == Cardinality(values) > 1

\* conflicting_keys.  The keys come in the order of the dict; the same list is
\* used for every target of the call, so its order does not change which
\* targets share a chunk.  They are listed in ascending order here.
ConflictingKeys(targets) ==
  SelectSeq([k \in Keys |-> k], LAMBDA k : IsConflicting(ExclusivesMap(targets)[k]))

\* list(t.exclusives[k])[0] if len(t.exclusives[k]) > 0 else "none": the
\* entries one target may get for key k.  The first element of a set is
\* whichever element its iteration yields first.
KeyEntries(t, k) ==
  IF exclusives[t].map[k] # {} THEN exclusives[t].map[k] ELSE {NoneValue}

\* the target_key lists one target may get
TargetKeys(t, conflicting_keys) ==
  {tk \in [1..Len(conflicting_keys) -> Values \cup {NoneValue}] :
     \A i \in 1..Len(conflicting_keys) : tk[i] \in KeyEntries(t, conflicting_keys[i])}

\* one target_key per element of targets
RECURSIVE TargetKeyLists(_, _)
TargetKeyLists(targets, conflicting_keys) ==
  IF targets = <<>> THEN {<<>>}
  ELSE {<<tk>> \o rest : tk \in TargetKeys(Head(targets), conflicting_keys),
                         rest \in TargetKeyLists(Tail(targets), conflicting_keys)}

\* chunks[str(target_key)].append(t): the dict as a set of (key, members)
\* entries.  str of a list of strings tells different lists apart, so the
\* key is the list itself.
ChunksOf(targets, tks) ==
  {[key |-> tk,
    members |-> SelectSeq(targets,
                  LAMBDA t : \E i \in 1..Len(targets) : targets[i] = t /\ tks[i] = tk)]
   : tk \in Range(tks)}

\* Group.compute_exclusives_chunks(targets).  t.exclusives[k] of a target
\* that was never propagated is a subscript of None: a TypeError.
compute_exclusives_chunks(targets) ==
  LET conflicting_keys == ConflictingKeys(targets) IN
  /\ chunks_result.status = "none"
  /\ IF conflicting_keys # <<>> /\ \E t \in Range(targets) : exclusives[t].isNone
     THEN chunks_result' = [status |-> "TypeError", targets |-> targets, chunks |-> {}]
     ELSE \E tks \in TargetKeyLists(targets, conflicting_keys) :
            chunks_result' = [status |-> "returned", targets |-> targets,
                              chunks |-> ChunksOf(targets, tks)]
  /\ UNCHANGED <<dependencies, declared_exclusives, exclusives, execute_result>>
  /\ UNCHANGED notExcl

\* The targets as they stand when chunks are computed: each either never
\* propagated or carrying its propagated map.
InitChunks ==
  /\ GraphIdle
  /\ WorkIdle
  /\ CacheIdle
  /\ CompileIdle
  /\ SplitIdle /\ LaterIdle
  /\ sort_input = <<>>
  /\ sort_result = [status |-> "none", list |-> <<>>]
  /\ TargetsDrawn
  /\ \E propagated \in SUBSET Targets :
       exclusives = [t \in Targets |->
                       IF t \in propagated THEN propagate_exclusives(t)
                       ELSE NoExclusives]
  /\ chunks_result = [status |-> "none", targets |-> <<>>, chunks |-> {}]
  /\ execute_result = [status |-> "none", targets |-> <<>>, signal_error |-> FALSE,
                       warnings |-> 0]

NextChunks ==
  \E targets \in SeqsNoDup(Targets, MaxInput) : compute_exclusives_chunks(targets)

SpecChunks == InitChunks /\ [][NextChunks]_vars

SameChunk(a, b) ==
  \E c \in chunks_result.chunks : a \in Range(c.members) /\ b \in Range(c.members)

AllPropagated(targets) == \A t \in Range(targets) : ~exclusives[t].isNone

\* C5 as stated: two targets whose computed value sets for some key differ are
\* never in the same chunk.
C5_Original ==
  (chunks_result.status = "returned" /\ AllPropagated(chunks_result.targets)) =>
    \A a, b \in Range(chunks_result.targets) :
      (\E k \in Keys : exclusives[a].map[k] # exclusives[b].map[k]) => ~SameChunk(a, b)

\* C5 (amended): compute_exclusives_chunks, for targets whose exclusives have
\* been propagated, never places in the same chunk two targets that both have
\* values for some key and have no value for it in common; every target is in
\* exactly one chunk.
C5_DisjointValuesApart ==
  (chunks_result.status = "returned" /\ AllPropagated(chunks_result.targets)) =>
    /\ \A a, b \in Range(chunks_result.targets) :
         (\E k \in Keys : /\ exclusives[a].map[k] # {}
                          /\ exclusives[b].map[k] # {}
                          /\ exclusives[a].map[k] \cap exclusives[b].map[k] = {})
           => ~SameChunk(a, b)
    /\ \A a \in Range(chunks_result.targets) :
         Cardinality({c \in chunks_result.chunks : a \in Range(c.members)}) = 1

\* C5 witness: three propagated targets, two of them with different single
\* values for a key, are split into two chunks, and the third, which has no
\* value for that key, shares a chunk with neither.
C5_Witness ==
  /\ chunks_result.status = "returned"
  /\ AllPropagated(chunks_result.targets)
  /\ Len(chunks_result.targets) = 3
  /\ Cardinality(chunks_result.chunks) = 3
  /\ \E a, b, c \in Range(chunks_result.targets) : \E k \in Keys :
       /\ Cardinality(exclusives[a].map[k]) = 1
       /\ Cardinality(exclusives[b].map[k]) = 1
       /\ exclusives[a].map[k] # exclusives[b].map[k]
       /\ exclusives[c].map[k] = {}
       /\ ~SameChunk(a, b)


(***************************************************************************)
(* CheckExclusives.execute (tasks/check_exclusives.py)                     *)
(***************************************************************************)
\* t._propagate_exclusives() for every t of targets.  The method is defined
\* outside the sources at hand; it is taken here as the specification's
\* propagation: one walk of the DAG, memoised, that leaves on the target and
\* on each of its transitive dependencies the multimap union of the
\* declarations below it.
PropagateTargets(excl, targets) ==
  LET closure == ClosureOf(Range(targets))
  IN  [t \in Targets |->
         IF t \in closure /\ excl[t].isNone
         THEN [isNone |-> FALSE, map |-> UnionOverClosure(t)]
         ELSE excl[t]]

\* A slip: a key with a single value already counts as a collision.
HasCollisionFromOne(values) == Cardinality(values) >= 1

\* if len(excl[key]) > 1
HasCollision(values) == Cardinality(values) > 1

\* excl = t.get_all_exclusives(), on the maps left by the first loop
ExclusivesFor(excl, t) ==
  IF excl[t].isNone THEN propagate_exclusives(t).map ELSE excl[t].map

\* the keys of target t that the second loop reports
Collisions(excl, t) ==
  LET e == ExclusivesFor(excl, t) IN {k \in Keys : HasCollision(e[k])}

\* the second loop of execute, from position i on: the number of warnings
\* printed, or -1 when TaskError is raised
RECURSIVE CheckFrom(_, _, _, _)
CheckFrom(excl, targets, i, signal_error) ==
  IF i > Len(targets) THEN 0
  ELSE LET n == Cardinality(Collisions(excl, targets[i])) IN
       IF n > 0 /\ signal_error THEN -1
       ELSE LET rest == CheckFrom(excl, targets, i + 1, signal_error) IN
            IF rest < 0 THEN rest ELSE n + rest

\* CheckExclusives.execute(targets) of a task built with signal_error
execute(targets, signal_error) ==
  /\ execute_result.status = "none"
  /\ \E excl \in {PropagateTargets(exclusives, targets)} :
     \E n \in {CheckFrom(excl, targets, 1, signal_error)} :
     /\ exclusives' = [t \in Targets |->
                         IF t \in Range(targets) /\ excl[t].isNone
                         THEN propagate_exclusives(t) ELSE excl[t]]
     /\ execute_result' =
          [status |-> IF n < 0 THEN "TaskError" ELSE "returned",
           targets |-> targets, signal_error |-> signal_error,
           warnings |-> IF n < 0 THEN 0 ELSE n]
     /\ UNCHANGED <<dependencies, declared_exclusives, chunks_result>>
     /\ UNCHANGED notExcl

NextCheck ==
  \E targets \in SeqsNoDup(Targets, MaxInput), signal_error \in BOOLEAN :
    execute(targets, signal_error)

SpecCheck == InitExcl /\ [][NextCheck]_vars

\* the (target, key) pairs of the call whose computed value set has more than
\* one value, stated on the declarations
CollidingPairs(targets) ==
  UNION {LET computed == UnionOverClosure(t)
         IN  {<<t, k>> : k \in {x \in Keys : Cardinality(computed[x]) > 1}}
         : t \in Range(targets)}

\* C6: with signal_error, execute(targets) fails with TaskError exactly when
\* some target of targets has a computed exclusives key with more than one
\* value; without signal_error it never fails and goes through every target
\* (one warning per colliding target and key).
C6_TaskErrorIffCollision ==
  execute_result.status # "none" =>
    LET pairs == CollidingPairs(execute_result.targets) IN
    /\ execute_result.signal_error =>
         ((execute_result.status = "TaskError") <=> (pairs # {}))
    /\ ~execute_result.signal_error =>
         /\ execute_result.status = "returned"
         /\ execute_result.warnings = Cardinality(pairs)
    /\ \A t \in Range(execute_result.targets) : ~exclusives[t].isNone

\* C6 witness: a TaskError for a list of three targets of which only the last
\* has a collision, the two values coming from two of its dependencies.
C6_Witness ==
  /\ execute_result.status = "TaskError"
  /\ Len(execute_result.targets) = 3
  /\ LET last == execute_result.targets[3] IN
     /\ \A k \in Keys : declared_exclusives[last][k] = {}
     /\ CollidingPairs(execute_result.targets) \subseteq {last} \X Keys


(***************************************************************************)
(* The work-unit tree (goal/work_unit.py) and RunTracker                   *)
(* (goal/run_tracker.py), used from one thread.                            *)
(***************************************************************************)
Units == 1..Len(workunits)

\* A slip: any different value is stored, not only a smaller one.
DiffersFromOutcome(outcome, current) == outcome # current

\* if outcome < self._outcome
LowersOutcome(outcome, current) == outcome < current

\* A slip: the outcome is never handed to the parent.
NeverHasParent(parent) == FALSE

\* if self.parent
HasParent(parent) == parent # 0

\* WorkUnit.choose raises for an outcome outside range(0, 5)
ValidOutcome(outcome) == outcome \in 0..4

\* WorkUnit.set_outcome on the units ws.  The validating call of choose comes
\* after the assignment and before the parent is told; it cannot fail for the
\* five outcomes of WorkUnit.
RECURSIVE SetOutcome(_, _, _)
SetOutcome(ws, u, outcome) ==
  IF LowersOutcome(outcome, ws[u].outcome)
  THEN LET ws1 == [ws EXCEPT ![u].outcome = outcome] IN
       IF ~ValidOutcome(outcome) THEN ws1
       ELSE IF HasParent(ws1[u].parent)
       THEN SetOutcome(ws1, ws1[u].parent, ws1[u].outcome)
       ELSE ws1
  ELSE ws

Min(a, b) == IF a < b THEN a ELSE b

\* workunit.set_outcome(outcome), called by the code of a scope on a unit it holds
set_outcome(u, outcome) ==
  /\ ~closed
  /\ raised = "none"
  /\ workunits' = SetOutcome(workunits, u, outcome)
  /\ last_set_outcome' = [unit |-> u, outcome |-> outcome, before |-> workunits[u].outcome]
  /\ outcome_set' = outcome_set \cup {u}
  /\ min_outcome_set' = Min(min_outcome_set, outcome)
  /\ UNCHANGED <<current_workunit, scopes, raised, closed, last_exit>>
  /\ UNCHANGED notWork

\* RunTracker.new_workunit up to its yield: a unit under the current one is
\* created, started, reported and made current.
new_workunit_enter ==
  /\ ~closed
  /\ raised = "none"
  /\ Len(workunits) < MaxUnits
  /\ workunits' = Append(workunits, NewWorkUnit(current_workunit))
  /\ current_workunit' = Len(workunits) + 1
  /\ scopes' = Append(scopes, Len(workunits) + 1)
  /\ UNCHANGED <<raised, closed, last_exit, last_set_outcome, outcome_set,
                 min_outcome_set>>
  /\ UNCHANGED notWork

\* A slip: the bare except comes first and takes the KeyboardInterrupt too.
ExitOutcomeBareFirst(kind) ==
  IF kind = "normal" THEN SUCCESS ELSE FAILURE

\* except KeyboardInterrupt / except / else of new_workunit
ExitOutcome(kind) ==
  IF kind = "KeyboardInterrupt" THEN ABORTED
  ELSE IF kind = "Exception" THEN FAILURE
  ELSE SUCCESS

\* WorkUnit.end, with report.end_workunit before it
EndReported(ws, u) == [ws EXCEPT ![u].reported_end = TRUE, ![u].ended = TRUE]

\* RunTracker.new_workunit from the yield on: the body of the innermost open
\* scope ends normally or by an exception.  An exception that left an inner
\* scope and was not caught is the one that ends the enclosing body.
new_workunit_exit(kind) ==
  /\ ~closed
  /\ scopes # <<>>
  /\ raised = "none" \/ kind = raised
  /\ LET u == current_workunit
         ws == EndReported(SetOutcome(workunits, u, ExitOutcome(kind)), u)
         reraised == IF kind = "normal" THEN "none" ELSE kind
     IN
     /\ workunits' = ws
     /\ current_workunit' = ws[u].parent
     /\ scopes' = SubSeq(scopes, 1, Len(scopes) - 1)
     /\ raised' = reraised
     /\ last_exit' = [unit |-> scopes[Len(scopes)], kind |-> kind, applied_to |-> u,
                      outcome |-> ExitOutcome(kind), restored |-> ws[u].parent,
                      reraised |-> reraised]
     /\ last_set_outcome' = [unit |-> u, outcome |-> ExitOutcome(kind),
                             before |-> workunits[u].outcome]
     /\ outcome_set' = IF kind = "normal" THEN outcome_set ELSE outcome_set \cup {u}
     /\ min_outcome_set' = Min(min_outcome_set, ExitOutcome(kind))
  /\ UNCHANGED closed
  /\ UNCHANGED notWork

\* The code around a scope catches the exception that left it.
catch ==
  /\ ~closed
  /\ raised # "none"
  /\ raised' = "none"
  /\ UNCHANGED <<workunits, current_workunit, scopes, closed, last_exit,
                 last_set_outcome, outcome_set, min_outcome_set>>
  /\ UNCHANGED notWork

\* WorkUnit.end called directly on a unit
end(u) ==
  /\ ~closed
  /\ raised = "none"
  /\ ~workunits[u].ended
  /\ workunits' = [workunits EXCEPT ![u].ended = TRUE]
  /\ UNCHANGED <<current_workunit, scopes, raised, closed, last_exit,
                 last_set_outcome, outcome_set, min_outcome_set>>
  /\ UNCHANGED notWork

\* while self._current_workunit: end_workunit, end, go to the parent
RECURSIVE CloseFrom(_, _)
CloseFrom(ws, u) ==
  IF u = 0 THEN ws ELSE CloseFrom(EndReported(ws, u), ws[u].parent)

\* RunTracker.close
close ==
  /\ ~closed
  /\ workunits' = CloseFrom(workunits, current_workunit)
  /\ current_workunit' = 0
  /\ closed' = TRUE
  /\ UNCHANGED <<scopes, raised, last_exit, last_set_outcome, outcome_set,
                 min_outcome_set>>
  /\ UNCHANGED notWork

InitWork == GraphIdle /\ SortIdle /\ ExclIdle /\ WorkIdle /\ CacheIdle /\ CompileIdle /\ SplitIdle /\ LaterIdle

NextWork ==
  \/ new_workunit_enter
  \/ \E kind \in {"normal", "Exception", "KeyboardInterrupt"} : new_workunit_exit(kind)
  \/ \E u \in Units, outcome \in Outcomes : set_outcome(u, outcome)
  \/ catch
  \/ \E u \in Units : end(u)
  \/ close

SpecWork == InitWork /\ [][NextWork]_vars


\* The ancestors of a unit, the unit included.
RECURSIVE AncestorsOrSelf(_)
AncestorsOrSelf(u) ==
  IF u = 0 THEN {} ELSE {u} \cup AncestorsOrSelf(workunits[u].parent)

Descendants(u) == {v \in Units : u \in AncestorsOrSelf(v)}

C8_ParentAtMostChild ==
  /\ \A u \in Units : workunits[u].parent # 0 =>
       workunits[workunits[u].parent].outcome <= workunits[u].outcome
  /\ workunits[1].outcome = min_outcome_set

\* An outcome set on a grandchild of the root reached the root through the
\* child between them.
C8_Witness ==
  /\ Len(workunits) = 3
  /\ workunits[2].parent = 1
  /\ workunits[3].parent = 2
  /\ last_set_outcome = [unit |-> 3, outcome |-> WARNING, before |-> UNKNOWN]
  /\ workunits[1].outcome = WARNING
  /\ workunits[2].outcome = WARNING

\* C9: when the body of a new_workunit scope raises, FAILURE is set on the
\* unit of the scope for an ordinary exception and ABORTED for a
\* KeyboardInterrupt; the exception propagates, the unit is reported ended and
\* ended, and the current work unit becomes the unit's parent.
C9_ScopeExitOnException ==
  last_exit.kind \in {"Exception", "KeyboardInterrupt"} =>
    /\ last_exit.applied_to = last_exit.unit
    /\ last_exit.kind = "Exception" => last_exit.outcome = 1
    /\ last_exit.kind = "KeyboardInterrupt" => last_exit.outcome = 0
    /\ workunits[last_exit.unit].outcome <= last_exit.outcome
    /\ last_exit.reraised = last_exit.kind
    /\ workunits[last_exit.unit].reported_end
    /\ workunits[last_exit.unit].ended
    /\ last_exit.restored = workunits[last_exit.unit].parent

\* A KeyboardInterrupt left the scope of a nested unit: the unit is ABORTED and
\* ended, its parent is current again and the interrupt is still propagating.
C9_Witness ==
  /\ last_exit.kind = "KeyboardInterrupt"
  /\ last_exit.unit = 3
  /\ workunits[3].parent = 2
  /\ workunits[3].outcome = ABORTED
  /\ workunits[3].ended
  /\ current_workunit = 2
  /\ raised = "KeyboardInterrupt"

\* C10: a unit that has ended, with no outcome set on it or on a descendant
\* other than by the normal exit of a scope, has outcome SUCCESS, whether it
\* was ended by the exit of its scope, by WorkUnit.end() or by RunTracker.close().
C10_EndedMeansSuccess ==
  \A u \in Units :
    (workunits[u].ended /\ Descendants(u) \cap outcome_set = {}) =>
      workunits[u].outcome = SUCCESS


(***************************************************************************)
(* The artifact caches (cache/artifact_cache.py, local_artifact_cache.py,  *)
(* artifact.py, transforming_artifact_cache.py).  The writes of two        *)
(* workspaces to the directory of one cache key interleave file by file.   *)
(***************************************************************************)
IsPrefix(p, q) == Len(p) <= Len(q) /\ SubSeq(q, 1, Len(p)) = p

\* os.path.relpath(path, start) for a path under start
RelPath(path, start) == SubSeq(path, Len(start) + 1, Len(path))

\* os.path.dirname(path)
Dirname(path) == SubSeq(path, 1, Len(path) - 1)

\* os.path.join(directory, relpath)
Join(directory, relpath) == directory \o relpath

\* A slip: only the files directly in the directory, not those below it.
FilesDirectlyIn(fs, path) == {q \in FilePaths : fs[q] # NoFile /\ Dirname(q) = path}

\* The files under a directory (os.walk), or the file at the path itself.
FilesUnder(fs, path) == {q \in FilePaths : fs[q] # NoFile /\ IsPrefix(path, q)}

IsFile(fs, path) == path \in FilePaths /\ fs[path] # NoFile

\* os.path.isdir: the two directories of the key exist when made; every other
\* directory exists while a file is under it.
IsDir(fs, dirs, path) ==
  \/ path \in dirs
  \/ \E q \in FilePaths : fs[q] # NoFile /\ IsPrefix(path, q) /\ q # path

\* os.path.exists
Exists(fs, dirs, path) == IsFile(fs, path) \/ IsDir(fs, dirs, path)

CacheDir == CacheDirForKey(CacheKey)
TmpDir == CacheDirTmp(CacheDir)

\* safe_mkdir(os.path.dirname(dst)) for a dst under the tmp or final directory
SafeMkdirFor(dirs, dst) ==
  dirs \cup {d \in {CacheDir, TmpDir} : IsPrefix(d, Dirname(dst))}

\* The files a directory tree holds, relative to its top.
TreeOf(fs, top) ==
  [rel \in RelFiles |-> fs[Join(top, rel)]]

\* One turn of the loop of DirectoryArtifact.collect, for one path, into
\* directory: shutil.copytree of a directory (which raises when dst exists), or
\* shutil.copy of a file (which raises when there is no such file).
CollectPath(fs, dirs, artifact_root, directory, path) ==
  LET relpath == RelPath(path, artifact_root)
      dst == Join(directory, relpath)
      dirs1 == SafeMkdirFor(dirs, dst)
  IN
  IF IsDir(fs, dirs, path)
  THEN IF Exists(fs, dirs1, dst)
       THEN [ok |-> FALSE, fs |-> fs, dirs |-> dirs1]
       ELSE [ok |-> TRUE,
             fs |-> [q \in FilePaths |->
                       IF IsPrefix(dst, q) /\ Join(path, RelPath(q, dst)) \in FilePaths
                       THEN fs[Join(path, RelPath(q, dst))] ELSE fs[q]],
             dirs |-> dirs1]
  ELSE IF ~IsFile(fs, path) \/ dst \notin FilePaths
       THEN [ok |-> FALSE, fs |-> fs, dirs |-> dirs1]
       ELSE [ok |-> TRUE, fs |-> [fs EXCEPT ![dst] = fs[path]], dirs |-> dirs1]

\* The file set a try_insert of paths is to store: the files at and under the
\* paths, as they are when the call starts.
ExpectedTree(fs, artifact_root, paths) ==
  [rel \in RelFiles |->
     IF \E i \in 1..Len(paths) : IsPrefix(paths[i], Join(artifact_root, rel))
     THEN fs[Join(artifact_root, rel)] ELSE NoFile]

\* The paths a workspace may hand to the cache: its files and its directory.
SourcePaths(w) ==
  {Join(ArtifactRoot(w), rel) : rel \in RelFiles} \cup {Join(ArtifactRoot(w), <<"d">>)}

Running == {"rm_tmp", "collect", "rm_final", "rename"}

\* safe_rmtree(directory) lists the tree when it starts; it then removes the
\* listed files one by one, ignoring errors, and the directory when it is empty.
SafeRmtreeListing(fs, directory) == FilesUnder(fs, directory)

\* try_insert up to the first safe_rmtree: the tree of cache_dir_tmp is listed.
BeginTryInsert(w, mode, paths) ==
  [pc |-> "rm_tmp", mode |-> mode, paths |-> paths, i |-> 1,
   todo |-> SafeRmtreeListing(cache_fs, TmpDir), result |-> "none",
   expected |-> ExpectedTree(cache_fs, ArtifactRoot(w), paths)]

\* A call ended without a cache write: it returned or it raised.
Ended(w, mode, result) ==
  [NoCall EXCEPT !.pc = "done", !.mode = mode, !.result = result]

\* LocalArtifactCache.try_insert called directly
try_insert(w, paths) ==
  /\ cache_calls[w].pc = "idle"
  /\ cache_calls' = [cache_calls EXCEPT ![w] = BeginTryInsert(w, "try_insert", paths)]
  /\ UNCHANGED <<cache_fs, cache_dirs, read_only, cache_log, last_use>>
  /\ UNCHANGED notCache

\* What a pre_write function makes of the paths; "raises" is handled by the caller.
PreWrite(pre_write_func, paths) ==
  IF pre_write_func = "first" /\ Len(paths) > 1 THEN SubSeq(paths, 1, 1) ELSE paths

\* paths_that_exist = filter(lambda f: os.path.exists(f), paths)
PathsThatExist(paths) == SelectSeq(paths, LAMBDA f : Exists(cache_fs, cache_dirs, f))

\* ArtifactCache.insert up to the first step of try_insert, reached directly
\* (wrapped = FALSE) or through TransformingArtifactCache.insert, whose
\* pre_write_func is none, returns paths or raises.
insert(w, paths, wrapped, pre_write_func) ==
  /\ cache_calls[w].pc = "idle"
  /\ wrapped \/ pre_write_func = "none"
  /\ cache_calls' = [cache_calls EXCEPT ![w] =
       IF wrapped /\ pre_write_func = "raises" THEN Ended(w, "insert", "raised")
       ELSE IF read_only THEN Ended(w, "insert", "returned")
       ELSE BeginTryInsert(w, "insert", PathsThatExist(PreWrite(pre_write_func, paths)))]
  /\ UNCHANGED <<cache_fs, cache_dirs, read_only, cache_log, last_use>>
  /\ UNCHANGED notCache

\* The call of w raised inside try_insert: insert logs and returns, a direct
\* try_insert raises.
Fail(w) ==
  /\ cache_calls' = [cache_calls EXCEPT ![w].pc = "done",
       ![w].result = IF cache_calls[w].mode = "insert" THEN "returned" ELSE "raised"]
  /\ cache_log' = IF cache_calls[w].mode = "insert" THEN cache_log + 1 ELSE cache_log


\* One step of safe_rmtree(cache_dir_tmp) or safe_rmtree(cache_dir): a listed
\* file is removed (an error is ignored), or, with every listed file gone, the
\* directory is removed if it is empty, and try_insert goes on.
rmtree_step(w) ==
  LET c == cache_calls[w]
      directory == IF c.pc = "rm_tmp" THEN TmpDir ELSE CacheDir
  IN
  /\ c.pc \in {"rm_tmp", "rm_final"}
  /\ IF c.todo # {}
     THEN \E q \in c.todo :
            /\ cache_fs' = [cache_fs EXCEPT ![q] = NoFile]
            /\ cache_calls' = [cache_calls EXCEPT ![w].todo = c.todo \ {q}]
            /\ UNCHANGED cache_dirs
     ELSE /\ cache_dirs' = IF FilesUnder(cache_fs, directory) = {}
                           THEN cache_dirs \ {directory} ELSE cache_dirs
          /\ cache_calls' = [cache_calls EXCEPT
               ![w].pc = IF c.pc = "rm_tmp" THEN "collect" ELSE "rename"]
          /\ UNCHANGED cache_fs
  /\ UNCHANGED <<read_only, cache_log, last_use>>
  /\ UNCHANGED notCache

\* One turn of the loop of artifact.collect(paths), or its end, after which the
\* tree of cache_dir is listed for the second safe_rmtree.
collect_step(w) ==
  LET c == cache_calls[w] IN
  /\ c.pc = "collect"
  /\ IF c.i > Len(c.paths)
     THEN /\ cache_calls' = [cache_calls EXCEPT ![w].pc = "rm_final",
                               ![w].todo = SafeRmtreeListing(cache_fs, CacheDir)]
          /\ UNCHANGED <<cache_fs, cache_dirs, cache_log>>
     ELSE LET r == CollectPath(cache_fs, cache_dirs, ArtifactRoot(w), TmpDir, c.paths[c.i]) IN
          /\ cache_fs' = r.fs
          /\ cache_dirs' = r.dirs
          /\ IF r.ok
             THEN /\ cache_calls' = [cache_calls EXCEPT ![w].i = c.i + 1]
                  /\ UNCHANGED cache_log
             ELSE Fail(w)
  /\ UNCHANGED <<read_only, last_use>>
  /\ UNCHANGED notCache

\* os.rename(cache_dir_tmp, cache_dir): raises when the tmp directory is not
\* there, or when the final directory is there and is not empty.
rename_step(w) ==
  /\ cache_calls[w].pc = "rename"
  /\ IF TmpDir \notin cache_dirs
        \/ (CacheDir \in cache_dirs /\ FilesUnder(cache_fs, CacheDir) # {})
     THEN /\ Fail(w)
          /\ UNCHANGED <<cache_fs, cache_dirs>>
     ELSE /\ cache_fs' = [q \in FilePaths |->
                            IF IsPrefix(CacheDir, q) THEN cache_fs[Join(TmpDir, RelPath(q, CacheDir))]
                            ELSE IF IsPrefix(TmpDir, q) THEN NoFile
                            ELSE cache_fs[q]]
          /\ cache_dirs' = (cache_dirs \ {TmpDir}) \cup {CacheDir}
          /\ cache_calls' = [cache_calls EXCEPT ![w].pc = "done", ![w].result = "returned"]
          /\ UNCHANGED cache_log
  /\ UNCHANGED <<read_only, last_use>>
  /\ UNCHANGED notCache

\* The process of w is interrupted or killed in the middle of its call.
interrupt(w) ==
  /\ cache_calls[w].pc \in Running
  /\ cache_calls' = [cache_calls EXCEPT ![w].pc = "interrupted", ![w].result = "interrupted"]
  /\ UNCHANGED <<cache_fs, cache_dirs, read_only, cache_log, last_use>>
  /\ UNCHANGED notCache

\* LocalArtifactCache.has
has(cache_key) == IsDir(cache_fs, cache_dirs, CacheDirForKey(cache_key))

\* DirectoryArtifact.extract with the copy function of LocalArtifactCache:
\* every file under directory is copied to its relative path under artifact_root.
Extract(fs, artifact_root, directory) ==
  [q \in FilePaths |->
     IF IsPrefix(artifact_root, q)
        /\ Join(directory, RelPath(q, artifact_root)) \in FilesUnder(fs, directory)
     THEN fs[Join(directory, RelPath(q, artifact_root))]
     ELSE fs[q]]

\* LocalArtifactCache.use_cached_files, called by a workspace between its
\* cache writes.
use_cached_files(w, cache_key) ==
  LET cache_dir == CacheDirForKey(cache_key) IN
  /\ cache_calls[w].pc \notin Running
  /\ last_use.writer = 0
  /\ IF Exists(cache_fs, cache_dirs, cache_dir)
     THEN /\ cache_fs' = Extract(cache_fs, ArtifactRoot(w), cache_dir)
          /\ last_use' = [writer |-> w, result |-> "artifact",
                          was_empty |-> FilesUnder(cache_fs, ArtifactRoot(w)) = {},
                          after |-> cache_calls[w].result]
     ELSE /\ UNCHANGED cache_fs
          /\ last_use' = [writer |-> w, result |-> "None",
                          was_empty |-> FilesUnder(cache_fs, ArtifactRoot(w)) = {},
                          after |-> cache_calls[w].result]
  /\ UNCHANGED <<cache_dirs, read_only, cache_calls, cache_log>>
  /\ UNCHANGED notCache

\* The artifact root of a workspace is emptied (a clean-all) between its calls.
clean(w) ==
  /\ cache_calls[w].pc \notin Running
  /\ last_use.writer = 0
  /\ FilesUnder(cache_fs, ArtifactRoot(w)) # {}
  /\ cache_fs' = [q \in FilePaths |-> IF IsPrefix(ArtifactRoot(w), q) THEN NoFile ELSE cache_fs[q]]
  /\ UNCHANGED <<cache_dirs, read_only, cache_calls, cache_log, last_use>>
  /\ UNCHANGED notCache

\* The artifact an earlier run left in the cache for the key.
EarlierArtifact == [rel \in RelFiles |-> BuiltContent(0, rel)]

\* The workspaces are built; the cache is empty or holds the complete artifact
\* of an earlier run; the cache objects are writable or read-only.
InitCache ==
  /\ GraphIdle /\ SortIdle /\ ExclIdle /\ WorkIdle /\ CompileIdle /\ SplitIdle /\ LaterIdle
  /\ \E earlier \in BOOLEAN :
       /\ cache_fs = [q \in FilePaths |->
                        IF earlier /\ IsPrefix(CacheDir, q)
                        THEN EarlierArtifact[RelPath(q, CacheDir)] ELSE BuiltWorkspaces[q]]
       /\ cache_dirs = IF earlier THEN {CacheDir} ELSE {}
  /\ read_only \in BOOLEAN
  /\ cache_calls = [w \in Writers |-> NoCall]
  /\ cache_log = 0
  /\ last_use = [writer |-> 0, was_empty |-> FALSE, result |-> "none", after |-> "none"]

\* One workspace uses the cache: its calls, their steps, and their interruption.
NextCache ==
  \/ \E paths \in SeqsUpTo(SourcePaths(1), MaxPaths) : try_insert(1, paths)
  \/ \E paths \in SeqsUpTo(SourcePaths(1), MaxPaths), wrapped \in BOOLEAN,
        pre_write_func \in {"none", "same", "first", "raises"} :
       insert(1, paths, wrapped, pre_write_func)
  \/ rmtree_step(1)
  \/ collect_step(1)
  \/ rename_step(1)
  \/ interrupt(1)
  \/ use_cached_files(1, CacheKey)
  \/ clean(1)

SpecCache == InitCache /\ [][NextCache]_vars

\* The caches of the race are writable.
InitCacheRace == InitCache /\ ~read_only

\* Every workspace writes the key once with try_insert; the steps interleave.
NextCacheRace ==
  \/ \E w \in Writers : \E paths \in SeqsUpTo(SourcePaths(w), MaxPaths) : try_insert(w, paths)
  \/ \E w \in Writers : rmtree_step(w)
  \/ \E w \in Writers : collect_step(w)
  \/ \E w \in Writers : rename_step(w)

SpecCacheRace == InitCacheRace /\ [][NextCacheRace]_vars


\* use_cached_files ran on the emptied artifact root of workspace 1 after its
\* try_insert had returned.
UsedAfterTryInsert ==
  /\ last_use.writer = 1
  /\ last_use.was_empty
  /\ last_use.after = "returned"
  /\ cache_calls[1].mode = "try_insert"

\* C11: after a successful try_insert(k, paths) with the paths under the
\* artifact root, use_cached_files(k) on an empty artifact root returns an
\* artifact and recreates exactly the inserted files, at the same relative
\* paths and with the same contents.
C11_InsertThenUseRestores ==
  UsedAfterTryInsert =>
    /\ last_use.result = "artifact"
    /\ TreeOf(cache_fs, ArtifactRoot(1)) = cache_calls[1].expected

\* A directory and a file outside it were inserted over an earlier artifact
\* and came back into the emptied artifact root.
C11_Witness ==
  /\ UsedAfterTryInsert
  /\ cache_calls[1].paths = <<Join(ArtifactRoot(1), <<"d">>), Join(ArtifactRoot(1), <<"a">>)>>
  /\ cache_fs[Join(ArtifactRoot(1), <<"d", "b">>)] = BuiltContent(1, <<"d", "b">>)
  /\ cache_fs[Join(ArtifactRoot(1), <<"a">>)] = BuiltContent(1, <<"a">>)
  /\ cache_fs[Join(CacheDir, <<"a">>)] = BuiltContent(1, <<"a">>)


\* C12: when two try_insert calls on one cache key run concurrently, under
\* every interleaving of their file-system steps neither call fails, and the
\* key's directory ends up holding exactly the complete file set of one of
\* the writers.
C12_ConcurrentWritersSafe ==
  (\A w \in Writers : cache_calls[w].pc = "done") =>
    /\ \A w \in Writers : cache_calls[w].result = "returned"
    /\ \E w \in Writers : TreeOf(cache_fs, CacheDir) = cache_calls[w].expected


\* C13: if a try_insert for a key is interrupted after any of its file-system
\* steps, also partway through the removal of the old final directory, the
\* key's directory is absent, or the complete previous artifact, or the
\* complete new artifact, so has(k) is never true for a partial directory.
C13_InterruptedInsertLeavesWhole ==
  cache_calls[1].pc = "interrupted" =>
    \/ ~has(CacheKey)
    \/ TreeOf(cache_fs, CacheDir) = EarlierArtifact
    \/ TreeOf(cache_fs, CacheDir) = cache_calls[1].expected


\* C14: ArtifactCache.insert never propagates an error to its caller: a
\* failure in try_insert, or in the pre_write function of a
\* TransformingArtifactCache wrapping the cache, is logged and swallowed.
C14_InsertNeverRaises ==
  cache_calls[1].mode = "insert" => cache_calls[1].result # "raised"

\* The key's directories are as they were before any call.
CacheUntouched ==
  /\ FilesUnder(cache_fs, TmpDir) = {}
  /\ TmpDir \notin cache_dirs
  /\ \/ CacheDir \notin cache_dirs /\ FilesUnder(cache_fs, CacheDir) = {}
     \/ CacheDir \in cache_dirs /\ TreeOf(cache_fs, CacheDir) = EarlierArtifact

\* C15: on a read-only cache insert(k, paths) is a silent no-op: it leaves the
\* stored artifacts unchanged and raises nothing, also when the read-only
\* cache is reached through a TransformingArtifactCache.
C15_ReadOnlyInsertIsNoOp ==
  (read_only /\ cache_calls[1].mode = "insert") =>
    /\ cache_calls[1].pc = "done"
    /\ cache_calls[1].result = "returned"
    /\ cache_log = 0
    /\ CacheUntouched


(***************************************************************************)
(* The compile tasks: ScalaCompile.execute and _process_targets            *)
(* (tasks/scala_compile.py), JavaCompile.execute (tasks/java_compile.py).  *)
(* The external tools (zinc, jmake) end with an exit code the task reads.  *)
(***************************************************************************)
\* self._confs
Confs == <<"default">>

ResourcesDir == [kind |-> "resources", partition |-> 0]
UpstreamJar == [kind |-> "jar", partition |-> 0]

\* _output_paths(vts.targets): the classes dir and the analysis file of a partition
ClassesDir(p) == [kind |-> "classes", partition |-> p]
AnalysisFile(p) == [kind |-> "analysis", partition |-> p]

\* _add_globally_required_classpath_entries: cp.insert(0, (conf, resources_dir))
RECURSIVE AddGloballyRequired(_, _)
AddGloballyRequired(classpath, confs) ==
  IF confs = <<>> THEN classpath
  ELSE AddGloballyRequired(<<[conf |-> Head(confs), entry |-> ResourcesDir]>> \o classpath,
                           Tail(confs))

\* classpath = [entry for conf, entry in cp if conf in self._confs]
RECURSIVE ClasspathFor(_)
ClasspathFor(classpath) ==
  IF classpath = <<>> THEN <<>>
  ELSE IF Head(classpath).conf \in Range(Confs)
       THEN <<Head(classpath).entry>> \o ClasspathFor(Tail(classpath))
       ELSE ClasspathFor(Tail(classpath))

\* A slip: every exit code of the compiler is taken for success.
CompileNeverFailed(exit_code) == FALSE

\* if self._zinc_utils.compile(...): raise TaskError('Compile failed.')
CompileFailed(exit_code) == exit_code # 0

\* any([not vt.valid for vt in vts.versioned_targets])
AnyInvalid(p) == ~partitions[p].valid

\* ScalaCompile._process_targets for partition p, with the exit code of zinc,
\* whether _split_artifact returns, and the exit codes of zinc's relativize for
\* the partition and for its targets: the steps taken in order, what the
\* compiler was given, and whether it raised.
ProcessTargets(p, exit_code, split_returns, relativize_code, vt_relativize_code) ==
  LET given == [classpath |-> ClasspathFor(cp), upstream |-> upstream_analysis_map]
      merged == [NotProcessed EXCEPT !.status = "ok", !.steps = <<"merge">>]
      compiled == [merged EXCEPT !.steps = @ \o <<"compile">>, !.exit_code = exit_code,
                                 !.classpath = given.classpath, !.upstream = given.upstream]
      diffed == [compiled EXCEPT !.steps = @ \o <<"diff">>]
      split == [diffed EXCEPT !.steps = @ \o <<"split">>]
      cached == [split EXCEPT !.steps = @ \o <<"cache">>]
  IN
  IF ~partitions[p].has_sources THEN merged
  ELSE IF ~AnyInvalid(p) THEN merged
  ELSE IF CompileFailed(exit_code) THEN [compiled EXCEPT !.status = "raised"]
  ELSE IF ~split_returns THEN [split EXCEPT !.status = "raised"]
  ELSE IF ~compile_task.write_to_artifact_cache THEN split
  ELSE IF relativize_code # 0 THEN [split EXCEPT !.status = "raised"]
  ELSE IF vt_relativize_code # 0 THEN [cached EXCEPT !.status = "raised"]
  ELSE cached

\* JavaCompile._process_target_partition for partition p, with the exit code of jmake
ProcessTargetPartition(p, exit_code) ==
  LET given == [classpath |-> ClasspathFor(cp), upstream |-> {}]
      none == [NotProcessed EXCEPT !.status = "ok"]
      compiled == [none EXCEPT !.steps = <<"compile">>, !.exit_code = exit_code,
                               !.classpath = given.classpath]
  IN
  IF ~partitions[p].has_sources THEN none
  ELSE IF CompileFailed(exit_code) THEN [compiled EXCEPT !.status = "raised"]
  ELSE compiled

\* A slip: vts.update() is called whatever the processing did.
UpdateAlways(committed, p, processed) == Append(committed, p)

\* vts.update() follows the processing call in the loop body, so it is reached
\* only when that call returned.
Update(committed, p, processed) ==
  IF processed.status = "ok" THEN Append(committed, p) ELSE committed

\* A slip: the classes dir of a partition goes to the front of the classpath.
AddUpstreamInFront(classpath, p) ==
  [i \in 1..(Len(classpath) + Len(Confs)) |->
     IF i <= Len(Confs) THEN [conf |-> Confs[i], entry |-> ClassesDir(p)]
     ELSE classpath[i - Len(Confs)]]

\* for conf in self._confs: cp.append((conf, classes_dir))
AddUpstream(classpath, p) ==
  classpath \o [i \in 1..Len(Confs) |-> [conf |-> Confs[i], entry |-> ClassesDir(p)]]

\* The loop is over, or goes on with the next partition.
AfterPartition(p) ==
  IF p = NumPartitions THEN [at |-> "returned", partition |-> 0]
  ELSE [at |-> "loop", partition |-> p + 1]

\* execute up to the loop over the partitions: ScalaCompile adds the globally
\* required entries to the classpath state; a dry run of JavaCompile skips the loop.
compile_begin ==
  /\ compile_pc.at = "idle"
  /\ compile_task.task # "none"
  /\ cp' = IF compile_task.task = "scala" THEN AddGloballyRequired(cp, Confs) ELSE cp
  /\ compile_pc' = IF compile_task.task = "java" /\ compile_task.dry_run
                   THEN [at |-> "returned", partition |-> 0]
                   ELSE [at |-> "loop", partition |-> 1]
  /\ UNCHANGED <<compile_task, partitions, upstream_analysis_map, updated, process_log>>
  /\ UNCHANGED notCompile

\* One turn of the loop of ScalaCompile.execute over all_vts_partitioned.
\* _process_targets makes the classes dir, so it exists after the call; the
\* analysis file exists when it did before or when zinc has compiled.
scala_partition(exit_code, split_returns, relativize_code, vt_relativize_code) ==
  LET p == compile_pc.partition
      r == ProcessTargets(p, exit_code, split_returns, relativize_code, vt_relativize_code)
      analysis == partitions[p].analysis_exists
                    \/ (Len(r.steps) > 1 /\ ~CompileFailed(exit_code))
  IN
  /\ compile_pc.at = "loop"
  /\ compile_task.task = "scala"
  /\ IF compile_task.dry_run
     THEN /\ compile_pc' = AfterPartition(p)
          /\ UNCHANGED <<partitions, cp, upstream_analysis_map, updated, process_log>>
     ELSE /\ process_log' = [process_log EXCEPT ![p] = r]
          /\ partitions' = [partitions EXCEPT ![p].analysis_exists = analysis]
          /\ updated' = Update(updated, p, r)
          /\ IF r.status = "ok"
             THEN /\ cp' = AddUpstream(cp, p)
                  /\ upstream_analysis_map' =
                       IF analysis
                       THEN upstream_analysis_map
                              \cup {[classes_dir |-> ClassesDir(p), analysis_file |-> AnalysisFile(p)]}
                       ELSE upstream_analysis_map
                  /\ compile_pc' = AfterPartition(p)
             ELSE /\ compile_pc' = [at |-> "raised", partition |-> p]
                  /\ UNCHANGED <<cp, upstream_analysis_map>>
  /\ UNCHANGED compile_task
  /\ UNCHANGED notCompile

\* One turn of the loop of JavaCompile.execute over invalid_vts_partitioned (a
\* valid partition is not in that list); the cache write follows the update
\* and may raise.
java_partition(exit_code, cache_write_returns) ==
  LET p == compile_pc.partition
      r == ProcessTargetPartition(p, exit_code)
  IN
  /\ compile_pc.at = "loop"
  /\ compile_task.task = "java"
  /\ IF partitions[p].valid
     THEN /\ compile_pc' = AfterPartition(p)
          /\ UNCHANGED <<updated, process_log>>
     ELSE /\ updated' = Update(updated, p, r)
          /\ IF r.status = "ok" /\ compile_task.write_to_artifact_cache
             THEN IF cache_write_returns
                  THEN /\ process_log' = [process_log EXCEPT ![p] =
                                            [r EXCEPT !.steps = @ \o <<"cache">>]]
                       /\ compile_pc' = AfterPartition(p)
                  ELSE /\ process_log' = [process_log EXCEPT ![p] = r]
                       /\ compile_pc' = [at |-> "raised", partition |-> p]
             ELSE /\ process_log' = [process_log EXCEPT ![p] = r]
                  /\ compile_pc' = IF r.status = "ok" THEN AfterPartition(p)
                                   ELSE [at |-> "raised", partition |-> p]
  /\ UNCHANGED <<compile_task, partitions, cp, upstream_analysis_map>>
  /\ UNCHANGED notCompile

\* A compile task is about to execute on its partitions; every partition has
\* valid or invalid targets, sources or none, and an analysis file from an
\* earlier run or none; upstream tasks may have left a classpath entry.
InitCompile ==
  /\ GraphIdle /\ SortIdle /\ ExclIdle /\ WorkIdle /\ CacheIdle /\ SplitIdle /\ LaterIdle
  /\ compile_task \in [task : {"scala", "java"}, dry_run : BOOLEAN,
                       write_to_artifact_cache : BOOLEAN]
  /\ partitions \in [Partitions -> [valid : BOOLEAN, has_sources : BOOLEAN,
                                    analysis_exists : BOOLEAN]]
  /\ compile_pc = [at |-> "idle", partition |-> 0]
  /\ cp \in {<<>>, <<[conf |-> "other", entry |-> UpstreamJar]>>}
  /\ upstream_analysis_map = {}
  /\ updated = <<>>
  /\ process_log = [p \in Partitions |-> NotProcessed]

NextCompile ==
  \/ compile_begin
  \/ \E exit_code \in {0, 1}, split_returns \in BOOLEAN, relativize_code \in {0, 1},
        vt_relativize_code \in {0, 1} :
       scala_partition(exit_code, split_returns, relativize_code, vt_relativize_code)
  \/ \E exit_code \in {0, 1}, cache_write_returns \in BOOLEAN :
       java_partition(exit_code, cache_write_returns)

SpecCompile == InitCompile /\ [][NextCompile]_vars


\* C16: in ScalaCompile.execute and JavaCompile.execute vts.update() is called
\* for a partition only after its processing returned without raising; when
\* the processing of partition k raises, update() is called neither for k nor
\* for a later partition, and the partitions processed before k stay committed.
C16_UpdateOnlyAfterSuccess ==
  /\ \A i \in 1..Len(updated) : process_log[updated[i]].status = "ok"
  /\ \A k \in Partitions : process_log[k].status = "raised" =>
       /\ \A j \in Partitions : j >= k =>
            j \notin Range(updated) /\ (j > k => process_log[j] = NotProcessed)
       /\ \A j \in Partitions :
            (j < k /\ (compile_task.task = "scala" \/ ~partitions[j].valid)) =>
              j \in Range(updated)

\* The second partition of a ScalaCompile run failed to compile: the first
\* one is committed, the second and the third are not.
C16_Witness ==
  /\ compile_task.task = "scala"
  /\ compile_pc = [at |-> "raised", partition |-> 2]
  /\ process_log[2].status = "raised"
  /\ process_log[1].steps = <<"merge", "compile", "diff", "split">>
  /\ updated = <<1>>


AllSteps == <<"merge", "compile", "diff", "split", "cache">>

\* C17: in ScalaCompile._process_targets the steps of a partition with an
\* invalid target come strictly in the order merge, compile, diff, split,
\* cache write; when the compiler returns a non-zero exit code the partition
\* fails, and neither the split nor a cache write nor vts.update() happens for
\* it; for a partition whose targets are all valid the compiler is not invoked
\* and nothing is written to the cache.
C17_StepsInOrder ==
  compile_task.task = "scala" =>
    \A p \in Partitions :
      LET r == process_log[p] IN
      /\ r.steps = SubSeq(AllSteps, 1, Len(r.steps))
      /\ (r.status = "ok" /\ ~partitions[p].valid /\ partitions[p].has_sources) =>
           Len(r.steps) = IF compile_task.write_to_artifact_cache THEN 5 ELSE 4
      /\ ("compile" \in Range(r.steps) /\ r.exit_code # 0) =>
           /\ r.status = "raised"
           /\ "split" \notin Range(r.steps)
           /\ "cache" \notin Range(r.steps)
           /\ p \notin Range(updated)
      /\ (r.status # "pending" /\ partitions[p].valid) => r.steps = <<"merge">>

\* A run with a writable cache: the first partition went through all five
\* steps, the second was all valid and only merged, the compiler failed on
\* the third.
C17_Witness ==
  /\ compile_task.task = "scala"
  /\ process_log[1].steps = AllSteps
  /\ process_log[1].status = "ok"
  /\ partitions[2].valid
  /\ process_log[2].steps = <<"merge">>
  /\ process_log[3].steps = <<"merge", "compile">>
  /\ process_log[3].exit_code = 1
  /\ process_log[3].status = "raised"
  /\ updated = <<1, 2>>


\* The classes dirs of partitions among the entries handed to the compiler.
PartitionEntries(classpath) == SelectSeq(classpath, LAMBDA e : e.kind = "classes")

\* C18: in ScalaCompile.execute, when the j-th partition of a run is compiled,
\* the classpath and the upstream analysis map handed to the compiler hold the
\* classes dir, and with it the analysis file, of every earlier partition of
\* the run whose outputs exist, in processing order, and no entry for the
\* j-th partition or for a later one.
C18_UpstreamOfEarlierPartitions ==
  compile_task.task = "scala" =>
    \A j \in Partitions : "compile" \in Range(process_log[j].steps) =>
      /\ PartitionEntries(process_log[j].classpath) = [i \in 1..(j - 1) |-> ClassesDir(i)]
      /\ process_log[j].upstream =
           {[classes_dir |-> ClassesDir(i), analysis_file |-> AnalysisFile(i)] :
              i \in {i \in 1..(j - 1) : partitions[i].analysis_exists}}

\* The third partition was compiled with the classes dirs of the first two on
\* its classpath, in that order; only the second had an analysis file.
C18_Witness ==
  /\ compile_task.task = "scala"
  /\ "compile" \in Range(process_log[3].steps)
  /\ PartitionEntries(process_log[3].classpath) = <<ClassesDir(1), ClassesDir(2)>>
  /\ process_log[3].upstream =
       {[classes_dir |-> ClassesDir(2), analysis_file |-> AnalysisFile(2)]}
  /\ Len(process_log[3].classpath) = 3

(***************************************************************************)
(* ScalaCompile: merging the per-target artifacts of a partition into one  *)
(* classes dir, compiling into it and splitting it again                   *)
(* (tasks/scala_compile.py).  A class file is named by its package         *)
(* directory and by the target whose sources the analysis attributes it    *)
(* to; a package directory of the merged dir is a real directory or a      *)
(* symlink to the package directory of one target.  A hard link is         *)
(* modelled as a copy.                                                     *)
(***************************************************************************)

\* The classes the analysis attributes to the sources of target t.
OwnedBy(t) == {cls \in ClassFiles : cls.owner = t}

\* _find_all_class_files: the class files under a classes dir.
FindAllClassFiles(dir) == {cls \in ClassFiles : dir.files[cls] # NoClass}

\* set([os.path.dirname(cls) for cls in classes])
PackageDirs(classes) == {cls.pkg : cls \in classes}

\* find_common_path_prefix: the one package directory when there is exactly
\* one, the classes dir itself ("") otherwise.
CommonPackageDir(package_dirs) ==
  IF Cardinality(package_dirs) = 1 THEN CHOOSE g \in package_dirs : TRUE ELSE ""

\* os.path.islink(os.path.join(merged classes dir, common_package_dir))
IsLink(d, common_package_dir) ==
  /\ common_package_dir # ""
  /\ d.merged.links[common_package_dir] # 0

\* The content of a class file read through the merged classes dir.
ReadMerged(d, cls) ==
  IF d.merged.links[cls.pkg] # 0
    THEN d.targets[d.merged.links[cls.pkg]].files[cls]
    ELSE d.merged.files[cls]

\* The class files of the merged classes dir, with their contents.
MergedView(d) == [cls \in ClassFiles |-> ReadMerged(d, cls)]

\* Writing class files through the merged classes dir: a file in a symlinked
\* package lands in the directory the symlink points to.
WriteMerged(d, new) ==
  [d EXCEPT
     !.merged.files = [cls \in ClassFiles |->
        IF cls \in DOMAIN new /\ d.merged.links[cls.pkg] = 0 THEN new[cls] ELSE @[cls]],
     !.merged.dirs = @ \cup {cls.pkg : cls \in {c \in DOMAIN new : d.merged.links[c.pkg] = 0}},
     !.targets = [t \in SplitTargets |->
        [@[t] EXCEPT !.files = [cls \in ClassFiles |->
           IF cls \in DOMAIN new /\ d.merged.links[cls.pkg] = t THEN new[cls] ELSE @[cls]]]]]

\* Removing class files through the merged classes dir.
RemoveMerged(d, classes) ==
  [d EXCEPT
     !.merged.files = [cls \in ClassFiles |->
        IF cls \in classes /\ d.merged.links[cls.pkg] = 0 THEN NoClass ELSE @[cls]],
     !.targets = [t \in SplitTargets |->
        [@[t] EXCEPT !.files = [cls \in ClassFiles |->
           IF cls \in classes /\ d.merged.links[cls.pkg] = t THEN NoClass ELSE @[cls]]]]]

\* The body of _merge_artifact's loop for one target.
MergeTarget(d, target) ==
  LET classes == FindAllClassFiles(d.targets[target])
      package_dirs == PackageDirs(classes)
      common_package_dir == CommonPackageDir(package_dirs)
      ancestor_symlink == IsLink(d, common_package_dir)
      dst_exists ==
        \/ common_package_dir = ""
        \/ common_package_dir \in d.merged.dirs
        \/ ancestor_symlink
      previous == d.merged.links[common_package_dir]
      \* os.unlink(ancestor_symlink); shutil.copytree(previous_src_dir, ...)
      copied ==
        IF ancestor_symlink
          THEN [d EXCEPT
                  !.merged.links[common_package_dir] = 0,
                  !.merged.dirs = @ \cup {common_package_dir},
                  !.merged.files = [cls \in ClassFiles |->
                     IF cls.pkg = common_package_dir
                       THEN d.targets[previous].files[cls] ELSE @[cls]]]
          ELSE d
      made == [copied EXCEPT
                 !.merged.dirs = @ \cup {g \in package_dirs : copied.merged.links[g] = 0}]
      to_link == {cls \in classes : ReadMerged(made, cls) = NoClass}
  IN  IF dst_exists
        THEN WriteMerged(made, [cls \in to_link |-> d.targets[target].files[cls]])
        ELSE [d EXCEPT !.merged.links[common_package_dir] = target]

RECURSIVE MergeTargetsFrom(_, _)
MergeTargetsFrom(d, target) ==
  IF target > PartitionSize THEN d
  ELSE MergeTargetsFrom(MergeTarget(d, target), target + 1)

\* _merge_artifact(targets); merge_code is what run_zinc_merge returns.
MergeArtifact(d, merge_code) ==
  IF PartitionSize <= 1 THEN d
  ELSE IF d.merged.exists /\ d.merged_analysis.exists THEN d
  ELSE
    LET emptied == [d EXCEPT !.merged = [EmptyDisk.merged EXCEPT !.exists = TRUE]]
        src_analysis_files ==
          {t \in SplitTargets : d.targets[t].exists /\ d.target_analysis[t].exists}
    IN  [MergeTargetsFrom(emptied, 1) EXCEPT
           !.merged_analysis =
              IF merge_code = 0
                THEN [exists |-> TRUE,
                      products |-> UNION {d.target_analysis[t].products :
                                            t \in src_analysis_files}]
                ELSE NoAnalysis]

\* old_classes of _process_targets: the products of the analysis before the
\* compile.
OldClasses(d) == IF d.merged_analysis.exists THEN d.merged_analysis.products ELSE {}

\* What an incremental compile may do: the sources now compile to current,
\* and the compile writes recompiled; a class it does not write is a product
\* of the earlier analysis that is still in the classes dir.
CanCompile(d, current, recompiled) ==
  /\ recompiled \subseteq current
  /\ \A cls \in current \ recompiled :
       cls \in OldClasses(d) /\ ReadMerged(d, cls) # NoClass

\* zinc_utils.compile returning 0 in round round: the products that are no
\* longer current are removed, the recompiled classes written, the analysis
\* replaced.
ZincCompile(d, current, recompiled, round) ==
  [WriteMerged(RemoveMerged(d, OldClasses(d) \ current),
               [cls \in recompiled |-> round])
     EXCEPT !.merged_analysis = [exists |-> TRUE, products |-> current]]

\* _compute_classfile_maps: target -> the products of its sources.
ClassesByTarget(d) ==
  [t \in SplitTargets |-> d.merged_analysis.products \cap OwnedBy(t)]

\* The first part of _split_artifact's loop body for one target: the
\* safe_mkdir calls.
SplitMkdirs(d, target, classes_by_target) ==
  LET package_dirs == PackageDirs(classes_by_target[target])
  IN  IF package_dirs = {} THEN d
      ELSE [d EXCEPT !.targets = [t \in SplitTargets |->
              IF t = target
                THEN [exists |-> TRUE, files |-> d.targets[t].files,
                      dirs |-> d.targets[t].dirs \cup package_dirs]
                ELSE d.targets[t]]]

\* shutil.copyfile(merged/cls, target/cls) succeeds: the directory of the
\* destination exists, and source and destination are not the same file.
CanCopy(d, target, cls) ==
  /\ cls.pkg \in d.targets[target].dirs
  /\ d.merged.links[cls.pkg] # target

\* The copies of the classes in copied into the classes dir of target.
CopyClasses(d, target, copied) ==
  [d EXCEPT !.targets = [t \in SplitTargets |->
     IF t = target
       THEN [exists |-> d.targets[t].exists, dirs |-> d.targets[t].dirs,
             files |-> [cls \in ClassFiles |->
                IF cls \in copied THEN ReadMerged(d, cls) ELSE d.targets[t].files[cls]]]
       ELSE d.targets[t]]]

\* The body of _split_artifact's loop for one target.  When a copy raises,
\* the result names the target and the classes whose copy would succeed.
SplitTarget(d, target, classes_by_target, new_or_changed_classes, deleted_classes) ==
  LET classes == classes_by_target[target]
      common_package_dir == CommonPackageDir(PackageDirs(classes))
      copy_classes == ~IsLink(d, common_package_dir)
      made == SplitMkdirs(d, target, classes_by_target)
      copyable == {cls \in new_or_changed_classes : CanCopy(made, target, cls)}
      copied == CopyClasses(made, target, new_or_changed_classes)
      unlinked == [copied EXCEPT !.targets = [t \in SplitTargets |->
                     IF t = target
                       THEN [exists |-> copied.targets[t].exists,
                             dirs |-> copied.targets[t].dirs,
                             files |-> [cls \in ClassFiles |->
                                IF cls \in deleted_classes THEN NoClass
                                ELSE copied.targets[t].files[cls]]]
                       ELSE copied.targets[t]]]
  IN  IF ~copy_classes
        THEN [raised |-> FALSE, disk |-> d, target |-> target, copyable |-> {}]
      ELSE IF copyable # new_or_changed_classes
        THEN [raised |-> TRUE, disk |-> made, target |-> target, copyable |-> copyable]
      ELSE [raised |-> FALSE, disk |-> unlinked, target |-> target, copyable |-> {}]

RECURSIVE SplitTargetsFrom(_, _, _, _, _)
SplitTargetsFrom(d, target, classes_by_target, new_or_changed_classes, deleted_classes) ==
  IF target > PartitionSize
    THEN [raised |-> FALSE, disk |-> d, target |-> 0, copyable |-> {}]
  ELSE
    LET r == SplitTarget(d, target, classes_by_target, new_or_changed_classes,
                         deleted_classes)
    IN  IF r.raised THEN r
        ELSE SplitTargetsFrom(r.disk, target + 1, classes_by_target,
                              new_or_changed_classes, deleted_classes)

\* _split_artifact(...); split_code is what run_zinc_split returns.
SplitArtifact(d, classes_by_target, new_or_changed_classes, deleted_classes, split_analysis, split_code) ==
  LET r == SplitTargetsFrom(d, 1, classes_by_target, new_or_changed_classes,
                            deleted_classes)
  IN  IF PartitionSize <= 1
        THEN [raised |-> FALSE, disk |-> d, target |-> 0, copyable |-> {}]
      ELSE IF r.raised THEN r
      ELSE IF split_analysis /\ r.disk.merged_analysis.exists
        THEN IF split_code # 0
               THEN [r EXCEPT !.raised = TRUE]
               ELSE [r EXCEPT !.disk.target_analysis = [t \in SplitTargets |->
                       [exists |-> TRUE, products |-> classes_by_target[t]]]]
      ELSE r

\* _process_targets of a partition with sources and an invalid target, zinc
\* compiling without an error: safe_mkdir, _merge_artifact, the compile, the
\* class file maps and _split_artifact.  partial are the classes a raising
\* copy loop had already copied.  A run after a run that raised is not
\* modelled.
process_targets(current, recompiled, merge_code, split_code) ==
  /\ split_pc.at \in {"idle", "processed"}
  /\ split_pc.round < MaxRounds
  /\ LET round == split_pc.round + 1
         merged == MergeArtifact([disk EXCEPT !.merged.exists = TRUE], merge_code)
         old_classes == OldClasses(merged)
         compiled == ZincCompile(merged, current, recompiled, round)
         classes_by_target == ClassesByTarget(compiled)
         current_classes == UNION {classes_by_target[t] : t \in SplitTargets}
         new_or_changed_classes ==
           {cls \in current_classes : ReadMerged(compiled, cls) = round}
         deleted_classes == old_classes \ current_classes
         split_analysis ==
           ~merged.merged_analysis.exists \/ merged.merged_analysis.products # current
         r == SplitArtifact(compiled, classes_by_target, new_or_changed_classes,
                            deleted_classes, split_analysis, split_code)
     IN  /\ CanCompile(merged, current, recompiled)
         /\ \E partial \in SUBSET r.copyable :
              disk' = IF r.raised /\ r.target # 0
                        THEN CopyClasses(r.disk, r.target, partial)
                        ELSE r.disk
         /\ split_pc' = [at |-> IF r.raised THEN "raised" ELSE "processed",
                         round |-> round]
         /\ split_log' = [after_compile |-> MergedView(compiled),
                          classes_by_target |-> classes_by_target,
                          new_or_changed |-> new_or_changed_classes,
                          remerged |-> NoClasses]
  /\ UNCHANGED notSplit

\* Merging the per-target artifacts of a processed partition into an empty
\* merged classes dir.
remerge(merge_code) ==
  /\ split_pc.at = "processed"
  /\ LET merged == MergeArtifact([disk EXCEPT !.merged = EmptyDisk.merged,
                                              !.merged_analysis = NoAnalysis],
                                 merge_code)
     IN  /\ disk' = merged
         /\ split_log' = [split_log EXCEPT !.remerged = MergedView(merged)]
  /\ split_pc' = [split_pc EXCEPT !.at = "remerged"]
  /\ UNCHANGED notSplit

\* The artifact of a target built on its own by an earlier run: its own
\* classes and its analysis.
OwnArtifact(classes) ==
  [dir |-> IF classes = {} THEN NoDir
           ELSE [exists |-> TRUE,
                 files |-> [cls \in ClassFiles |-> IF cls \in classes THEN 0 ELSE NoClass],
                 dirs |-> PackageDirs(classes)],
   analysis |-> IF classes = {} THEN NoAnalysis
                ELSE [exists |-> TRUE, products |-> classes]]

InitSplit ==
  /\ GraphIdle /\ SortIdle /\ ExclIdle /\ WorkIdle /\ CacheIdle /\ CompileIdle
  /\ LaterIdle
  /\ \E prior \in [SplitTargets -> SUBSET ClassFiles] :
       /\ \A t \in SplitTargets : prior[t] \subseteq OwnedBy(t)
       /\ disk = [EmptyDisk EXCEPT
            !.targets = [t \in SplitTargets |-> OwnArtifact(prior[t]).dir],
            !.target_analysis = [t \in SplitTargets |-> OwnArtifact(prior[t]).analysis]]
  /\ split_pc = [at |-> "idle", round |-> 0]
  /\ split_log = NoRound

NextSplit ==
  \/ \E current \in SUBSET ClassFiles :
       \E recompiled \in SUBSET current :
         \E merge_code \in {0, 1}, split_code \in {0, 1} :
           process_targets(current, recompiled, merge_code, split_code)
  \/ \E merge_code \in {0, 1} : remerge(merge_code)

SpecSplit == InitSplit /\ [][NextSplit]_vars

\* C19: after _split_artifact has returned, the classes dir of each target of
\* the partition contains only class files the analysis attributes to that
\* target's own sources.
C19_SplitKeepsTargetsApart ==
  split_pc.at = "processed" =>
    \A t \in SplitTargets : FindAllClassFiles(disk.targets[t]) \subseteq OwnedBy(t)

\* C20: merging the per-target artifacts a split has produced into an empty
\* merged classes dir gives the class files the merged classes dir had after
\* the compile.
C20_SplitThenMergeRestores ==
  split_pc.at = "remerged" =>
    \A cls \in ClassFiles :
      (split_log.remerged[cls] = NoClass) = (split_log.after_compile[cls] = NoClass)

(***************************************************************************)
(* Report: the work units' buffers, flushed to the reporters by the        *)
(* emitter thread and at the start and the end of a work unit              *)
(* (reporting/report.py, twitter/common/threading).  What runs under       *)
(* self._lock is one step.                                                 *)
(***************************************************************************)

\* WorkUnit.parent() of the units the report is told about.
ReportParent(u) == IF u = 1 THEN 0 ELSE 1

\* self._workunits: set to {} by __init__, and no method stores into it.
ReportWorkunits == {}

\* The ids of self._rwbufs.
Registered(rwbufs) == {u \in ReportUnits : rwbufs[u].registered}

\* rwbuf._read(): the strings written since the previous read.
ReadNew(rwbuf) == SubSeq(rwbuf.written, rwbuf.readpos + 1, Len(rwbuf.written))

\* reporter.handle_output(workunit, s) of every reporter
HandleOutput(reporters, u, s) ==
  [r \in Reporters |->
     [delivered |-> [v \in ReportUnits |->
         IF v = u THEN reporters[r].delivered[v] \o s ELSE reporters[r].delivered[v]],
      closed |-> reporters[r].closed,
      after_close |-> reporters[r].after_close \/ reporters[r].closed]]

RECURSIVE NotifyEach(_, _, _)
NotifyEach(ids, rwbufs, reporters) ==
  IF ids = {} THEN [raised |-> FALSE, rwbufs |-> rwbufs, reporters |-> reporters]
  ELSE
    LET id == CHOOSE u \in ids : TRUE
        s == ReadNew(rwbufs[id])
        read == [rwbufs EXCEPT ![id] = [registered |-> TRUE, written |-> rwbufs[id].written,
                                         readpos |-> Len(rwbufs[id].written)]]
    IN  NotifyEach(ids \ {id}, read,
                   IF Len(s) > 0 THEN HandleOutput(reporters, id, s) ELSE reporters)

\* Report._notify: self._workunits[id] raises KeyError for an id that is not
\* in self._workunits, before the buffer of that id is read.
Notify(rwbufs, reporters) ==
  IF \E id \in Registered(rwbufs) : id \notin ReportWorkunits
    THEN [raised |-> TRUE, rwbufs |-> rwbufs, reporters |-> reporters]
    ELSE NotifyEach(Registered(rwbufs), rwbufs, reporters)

\* Report.start_workunit(workunit)
start_workunit(u) ==
  /\ ~report_log.closed
  /\ u \notin report_log.started
  /\ u = 1 \/ report_rwbufs[1].registered
  /\ LET n == Notify(report_rwbufs, report_reporters)
     IN  IF n.raised
           THEN /\ report_log' = [report_log EXCEPT !.raised = "start_workunit",
                                                     !.started = @ \cup {u}]
                /\ UNCHANGED <<report_rwbufs, report_current, report_reporters>>
           ELSE /\ report_current' = u
                /\ report_rwbufs' = [n.rwbufs EXCEPT ![u] =
                      [registered |-> TRUE, written |-> <<>>, readpos |-> 0]]
                /\ report_reporters' = n.reporters
                /\ report_log' = [report_log EXCEPT !.started = @ \cup {u}]
  /\ UNCHANGED report_emitter
  /\ UNCHANGED notReport

\* Report.end_workunit(workunit)
end_workunit(u) ==
  /\ ~report_log.closed
  /\ report_rwbufs[u].registered
  /\ u = 1 => Registered(report_rwbufs) = {1}
  /\ LET n == Notify(report_rwbufs, report_reporters)
     IN  IF n.raised
           THEN /\ report_log' = [report_log EXCEPT !.raised = "end_workunit"]
                /\ UNCHANGED <<report_rwbufs, report_current, report_reporters>>
           ELSE /\ report_current' = ReportParent(u)
                /\ report_rwbufs' = [n.rwbufs EXCEPT ![u] = NoBuffer]
                /\ report_reporters' = n.reporters
                /\ UNCHANGED report_log
  /\ UNCHANGED report_emitter
  /\ UNCHANGED notReport

RECURSIVE WritesTo(_)
WritesTo(units) ==
  IF units = {} THEN 0
  ELSE LET u == CHOOSE v \in units : TRUE
       IN  Len(report_log.written[u]) + WritesTo(units \ {u})

\* The number of strings written to the report so far.
Writes == WritesTo(ReportUnits)

\* Report.write(s): into the buffer of the current work unit.
write(s) ==
  /\ ~report_log.closed
  /\ report_current # 0
  /\ Writes < MaxWrites
  /\ report_rwbufs' = [report_rwbufs EXCEPT ![report_current] =
        [registered |-> @.registered, written |-> Append(@.written, s),
         readpos |-> @.readpos]]
  /\ report_log' = [report_log EXCEPT !.written[report_current] = Append(@, s)]
  /\ UNCHANGED <<report_current, report_reporters, report_emitter>>
  /\ UNCHANGED notReport

\* One period of the emitter thread, Report._lock_and_notify: an exception
\* of the target ends the thread.
lock_and_notify ==
  /\ report_emitter = "running"
  /\ LET n == Notify(report_rwbufs, report_reporters)
     IN  IF n.raised
           THEN /\ report_emitter' = "died"
                /\ report_log' = [report_log EXCEPT !.raised = "emitter"]
                /\ UNCHANGED <<report_rwbufs, report_reporters>>
           ELSE /\ report_rwbufs' = n.rwbufs
                /\ report_reporters' = n.reporters
                /\ UNCHANGED <<report_emitter, report_log>>
  /\ UNCHANGED report_current
  /\ UNCHANGED notReport

\* Report.close(): StoppableThread.stop() sets the flag and joins the
\* thread, then every reporter is closed under the lock.
report_close ==
  /\ ~report_log.closed
  /\ report_emitter' = "stopped"
  /\ report_reporters' = [r \in Reporters |->
        [delivered |-> report_reporters[r].delivered, closed |-> TRUE,
         after_close |-> report_reporters[r].after_close]]
  /\ report_log' = [report_log EXCEPT
        !.closed = TRUE,
        !.written_at_close = report_log.written,
        !.open_at_close = Registered(report_rwbufs)]
  /\ UNCHANGED <<report_rwbufs, report_current>>
  /\ UNCHANGED notReport

InitReport == EarlierIdle /\ ReportIdle /\ RWBufIdle /\ PoolIdle /\ ParserIdle /\ FinalIdle

NextReport ==
  \/ \E u \in ReportUnits : start_workunit(u)
  \/ \E u \in ReportUnits : end_workunit(u)
  \/ \E s \in Strings : write(s)
  \/ lock_and_notify
  \/ report_close

SpecReport == InitReport /\ [][NextReport]_vars

C22_CloseFlushes ==
  report_log.closed =>
    \A r \in Reporters :
      /\ ~report_reporters[r].after_close
      /\ \A u \in report_log.open_at_close :
           report_reporters[r].delivered[u] = report_log.written_at_close[u]

(***************************************************************************)
(* InMemoryRWBuf and FileBackedRWBuf (goal/read_write_buffer.py): one      *)
(* thread writes, another reads.  The body of write and of read runs under *)
(* the buffer's lock and is one step.                                      *)
(***************************************************************************)

\* The strings written: one to MaxChunk bytes.
Chunks == UNION {[1..n -> Bytes] : n \in 1..MaxChunk}

\* The size argument of read: -1 for no limit.
Sizes == {-1} \cup 1..MaxChunk

\* io.seek(pos); io.write(s): the content with s at pos.
WriteAt(io, pos, s) ==
  SubSeq(io, 1, pos) \o s \o SubSeq(io, pos + Len(s) + 1, Len(io))

\* io.seek(pos); io.read() or io.read(size)
ReadAt(io, pos, size) ==
  IF size = -1 \/ pos + size > Len(io)
    THEN SubSeq(io, pos + 1, Len(io))
    ELSE SubSeq(io, pos + 1, pos + size)

\* A slip: the position is not moved by what was read.
TellUnmoved(pos, ret) == pos

\* io.tell() after reading or writing ret at pos
Tell(pos, ret) == pos + Len(ret)

\* InMemoryRWBuf.write(s)
InMemoryWrite(b, s) ==
  [b EXCEPT !.io = WriteAt(b.io, b.writepos, s),
            !.writepos = Tell(b.writepos, s)]

\* FileBackedRWBuf.write(s): _out is opened for appending.
FileBackedWrite(b, s) == [b EXCEPT !.io = b.io \o s]

\* InMemoryRWBuf.read(size), FileBackedRWBuf.read(size): the buffer after it.
AfterRead(b, size) == [b EXCEPT !.readpos = Tell(b.readpos, ReadAt(b.io, b.readpos, size))]

\* write(s) of the writing thread
rwbuf_write(s) ==
  /\ Len(rwbuf_log.written) + Len(s) <= MaxBytes
  /\ buffer' = IF buffer.class = "InMemoryRWBuf"
                THEN InMemoryWrite(buffer, s) ELSE FileBackedWrite(buffer, s)
  /\ rwbuf_log' = [rwbuf_log EXCEPT !.written = @ \o s]
  /\ UNCHANGED notRWBuf

\* read(size) of the reading thread
rwbuf_read(size) ==
  /\ rwbuf_log.reads < MaxBytes
  /\ LET ret == ReadAt(buffer.io, buffer.readpos, size)
     IN  /\ buffer' = AfterRead(buffer, size)
         /\ rwbuf_log' = [rwbuf_log EXCEPT
              !.returned = @ \o ret, !.last = ret, !.size = size, !.reads = @ + 1,
              !.returned_before = Len(rwbuf_log.returned),
              !.written_before = Len(rwbuf_log.written)]
  /\ UNCHANGED notRWBuf

\* __init__ of either class; the backing file of a FileBackedRWBuf is new.
InitRWBuf ==
  /\ EarlierIdle /\ ReportIdle /\ PoolIdle /\ ParserIdle /\ FinalIdle
  /\ buffer \in [class : {"InMemoryRWBuf", "FileBackedRWBuf"}, io : {<<>>},
                 readpos : {0}, writepos : {0}]
  /\ rwbuf_log = [written |-> <<>>, returned |-> <<>>, last |-> <<>>, size |-> 0,
                  reads |-> 0, returned_before |-> 0, written_before |-> 0]

NextRWBuf ==
  \/ \E s \in Chunks : rwbuf_write(s)
  \/ \E size \in Sizes : rwbuf_read(size)

SpecRWBuf == InitRWBuf /\ [][NextRWBuf]_vars

ReturnOf(arg) == "f" \o ToString(arg)

\* The nested do_work(*args): it calls self._do_work(...) and has no return
\* statement.
DoWork(value) == "None"

\* A queued invocation.
NewTask(arg) ==
  [pc |-> "queued", arg |-> arg, unit |-> 0, parent_at_submit |-> 0,
   ended_unit |-> 0, raised |-> FALSE, returned |-> "none"]

Tasks == 1..Len(pool_tasks)

\* The invocations a thread of the pool is running.
InProgress == {i \in Tasks : pool_tasks[i].pc \in {"entered", "ran"}}

\* submit_work_and_wait or submit_async_work with n argument tuples
submit(kind, n, workunit_name) ==
  /\ pool_call.state = "idle"
  /\ pool_tasks' = [i \in 1..n |-> [NewTask(i) EXCEPT !.parent_at_submit = pool_current]]
  /\ pool_call' =
       [kind |-> kind, workunit_name |-> workunit_name,
        state |-> IF n = 0 THEN "returned" ELSE "running",
        result |-> <<>>,
        callback_calls |-> IF n = 0 /\ kind = "async" THEN << <<>> >> ELSE <<>>]
  /\ UNCHANGED <<pool_workunits, pool_current>>
  /\ UNCHANGED notPool

\* _do_work up to the call of func: RunTracker.new_workunit up to the yield
\* when a work unit name is given.  A thread takes the next queued tuple.
task_enter(i) ==
  /\ pool_tasks[i].pc = "queued"
  /\ \A j \in 1..(i - 1) : pool_tasks[j].pc # "queued"
  /\ Cardinality(InProgress) < NumWorkers
  /\ IF pool_call.workunit_name
       THEN /\ pool_workunits' = Append(pool_workunits,
                 [parent |-> pool_current, ended |-> FALSE, ended_by |-> 0])
            /\ pool_current' = Len(pool_workunits) + 1
            /\ pool_tasks' = [pool_tasks EXCEPT ![i] =
                 [@ EXCEPT !.pc = "entered", !.unit = Len(pool_workunits) + 1]]
       ELSE /\ pool_tasks' = [pool_tasks EXCEPT ![i] = [@ EXCEPT !.pc = "entered"]]
            /\ UNCHANGED <<pool_workunits, pool_current>>
  /\ UNCHANGED pool_call
  /\ UNCHANGED notPool

\* func(*args_tuple) returns or raises.
task_run(i, raises) ==
  /\ pool_tasks[i].pc = "entered"
  /\ pool_tasks' = [pool_tasks EXCEPT ![i] =
       [@ EXCEPT !.pc = "ran", !.raised = raises,
                 !.returned = IF raises THEN "none"
                             ELSE DoWork(ReturnOf(pool_tasks[i].arg))]]
  /\ UNCHANGED <<pool_workunits, pool_current, pool_call>>
  /\ UNCHANGED notPool

\* The results of the invocations, in the order of args_tuples.
MapResult(tasks) == [i \in 1..Len(tasks) |-> tasks[i].returned]

\* ThreadPool.map and map_async after an invocation has ended: the call
\* fails with the first exception, and it returns the results, or gives them
\* to the callback, when the last invocation has ended and none raised.
AfterTask(call, tasks, i) ==
  IF call.state # "running" THEN call
  ELSE IF tasks[i].raised
    THEN [call EXCEPT !.state = IF call.kind = "wait" THEN "raised" ELSE "failed"]
  ELSE IF \A j \in 1..Len(tasks) : tasks[j].pc = "done"
    THEN [call EXCEPT !.state = "returned",
                      !.result = IF call.kind = "wait" THEN MapResult(tasks) ELSE <<>>,
                      !.callback_calls =
                         IF call.kind = "async" THEN Append(@, MapResult(tasks)) ELSE @]
  ELSE call

\* _do_work after func: the finally of RunTracker.new_workunit ends the
\* current work unit and makes its parent the current one.
task_exit(i) ==
  /\ pool_tasks[i].pc = "ran"
  /\ LET ended == IF pool_call.workunit_name THEN pool_current ELSE 0
         tasks == [pool_tasks EXCEPT ![i] =
                     [@ EXCEPT !.pc = "done", !.ended_unit = ended]]
     IN  /\ pool_tasks' = tasks
         /\ pool_call' = AfterTask(pool_call, tasks, i)
         /\ IF pool_call.workunit_name /\ pool_current # 0
              THEN /\ pool_workunits' = [pool_workunits EXCEPT ![pool_current] =
                        [@ EXCEPT !.ended = TRUE, !.ended_by = i]]
                   /\ pool_current' = pool_workunits[pool_current].parent
              ELSE UNCHANGED <<pool_workunits, pool_current>>
  /\ UNCHANGED notPool

InitPool == EarlierIdle /\ ReportIdle /\ RWBufIdle /\ PoolIdle /\ ParserIdle /\ FinalIdle

NextPool ==
  \/ \E kind \in {"wait", "async"}, n \in 0..MaxTasks, workunit_name \in BOOLEAN :
       submit(kind, n, workunit_name)
  \/ \E i \in Tasks : task_enter(i)
  \/ \E i \in Tasks, raises \in BOOLEAN : task_run(i, raises)
  \/ \E i \in Tasks : task_exit(i)

SpecPool == InitPool /\ [][NextPool]_vars

\* The return values of func, in the order of args_tuples.
ExpectedResults == [i \in Tasks |-> ReturnOf(pool_tasks[i].arg)]

\* C24: submit_work_and_wait returns the return values of func in the order
\* of args_tuples and only when no invocation raised, and the callback of
\* submit_async_work gets that list, and only when no invocation raised.
C24_ResultsInInputOrder ==
  /\ pool_call.kind = "wait" /\ pool_call.state = "returned" =>
       /\ pool_call.result = ExpectedResults
       /\ \A i \in Tasks : ~pool_tasks[i].raised
  /\ \A k \in 1..Len(pool_call.callback_calls) :
       /\ pool_call.callback_calls[k] = ExpectedResults
       /\ \A i \in Tasks : ~pool_tasks[i].raised

\* C25: the work unit of every invocation that runs inside one has the
\* submitter's current work unit as its parent, and the work unit ended when
\* the invocation is left is that invocation's own.
C25_TaskOwnsItsWorkUnit ==
  pool_call.workunit_name =>
    \A i \in Tasks :
      /\ pool_tasks[i].unit # 0 =>
           pool_workunits[pool_tasks[i].unit].parent = pool_tasks[i].parent_at_submit
      /\ pool_tasks[i].pc = "done" => pool_tasks[i].ended_unit = pool_tasks[i].unit

(***************************************************************************)
(* BuildFileParser (base/build_file_parser.py): parse_build_file evaluates *)
(* the target calls of a manifest and registers the proxies they make.     *)
(* A dependency spec is the sequence of its parts: <<"a", ":", "x">> for   *)
(* a:x, <<":", "x">> for :x.                                               *)
(***************************************************************************)

\* A target call that passes the checks of TargetProxy.__init__.
TargetCall(name, dependency_specs) ==
  [positional |-> FALSE, name |-> name, build_file |-> FALSE,
   dependencies |-> dependency_specs]

\* A slip: no check is made.
IsAcceptedAlways(call) == TRUE

\* The three assertions of TargetProxy.__init__: name is in kwargs ("" stands
\* for no name), there is no positional argument, build_file is not in kwargs.
IsAccepted(call) ==
  /\ call.name # ""
  /\ ~call.positional
  /\ ~call.build_file

\* BuildFileAddress(build_file, name)
AddressOf(build_file, name) == [path |-> build_file.dir, name |-> name]

\* TargetProxy.__init__ for call number index of the parse number serial;
\* the two numbers stand for the identity of the object.
TargetProxy(build_file, call, serial, index) ==
  [target_type |-> "fake", build_file |-> build_file, name |-> call.name,
   kwargs |-> [name |-> call.name, dependencies |-> call.dependencies],
   positional |-> call.positional, build_file_kwarg |-> call.build_file,
   address |-> AddressOf(build_file, call.name), serial |-> serial, index |-> index]

\* compatibility.exec_function on the manifest: the calls in order, up to the
\* first that TargetProxy.__init__ rejects.
RECURSIVE ExecFrom(_, _, _, _, _)
ExecFrom(content, build_file, serial, index, registered) ==
  IF index > Len(content) THEN [raised |-> FALSE, registered |-> registered]
  ELSE IF ~IsAccepted(content[index]) THEN [raised |-> TRUE, registered |-> registered]
  ELSE ExecFrom(content, build_file, serial, index + 1,
                registered \cup {TargetProxy(build_file, content[index], serial, index)})

\* A slip: an address is never taken as known.
IsKnownNever(p, build_file, address) == FALSE

\* The two assertions of the registering loop fail for this address.
IsKnown(p, build_file, address) ==
  \/ p.proxy_by_address[address] # NoProxy
  \/ address \in p.addresses_by_build_file[build_file]

\* The three stores of the registering loop.
StoreProxy(p, build_file, target_proxy) ==
  [proxy_by_address |->
     [a \in Addresses |-> IF a = target_proxy.address THEN target_proxy
                          ELSE p.proxy_by_address[a]],
   proxies_by_build_file |->
     [bf \in Manifests |-> IF bf = build_file
                             THEN p.proxies_by_build_file[bf] \cup {target_proxy}
                             ELSE p.proxies_by_build_file[bf]],
   addresses_by_build_file |->
     [bf \in Manifests |-> IF bf = build_file
                             THEN p.addresses_by_build_file[bf] \cup {target_proxy.address}
                             ELSE p.addresses_by_build_file[bf]],
   added_build_files |-> p.added_build_files]

\* for target_proxy in registered_target_proxies, in the order the set is
\* iterated in: an assertion that fails ends the loop.
RECURSIVE RegisterFrom(_, _, _, _)
RegisterFrom(p, build_file, order, k) ==
  IF k > Len(order) THEN [raised |-> FALSE, parser |-> p]
  ELSE IF IsKnown(p, build_file, order[k].address) THEN [raised |-> TRUE, parser |-> p]
  ELSE RegisterFrom(StoreProxy(p, build_file, order[k]), build_file, order, k + 1)

\* parse_build_file has no return statement.
ParseReturns(registered) == [is_none |-> TRUE, proxies |-> {}]

\* The orders a set of at most MaxCalls + 1 proxies is iterated in.
Orders(S) ==
  {order \in UNION {[1..n -> S] : n \in 0..(MaxCalls + 1)} :
     /\ Len(order) = Cardinality(S)
     /\ \A i, j \in 1..Len(order) : i # j => order[i] # order[j]}

\* parse_build_file(build_file): the manifest is evaluated whether or not it
\* is in _added_build_files.
ParseBuildFile(p, content, build_file, serial, order) ==
  LET executed == ExecFrom(content, build_file, serial, 1, {})
      stored == RegisterFrom(p, build_file, order, 1)
  IN  IF executed.raised
        THEN [raised |-> "exec", parser |-> p, registered |-> executed.registered,
              returned |-> ParseReturns(executed.registered)]
      ELSE IF stored.raised
        THEN [raised |-> "register", parser |-> stored.parser,
              registered |-> executed.registered,
              returned |-> ParseReturns(executed.registered)]
      ELSE [raised |-> "none",
            parser |-> [stored.parser EXCEPT !.added_build_files = @ \cup {build_file}],
            registered |-> executed.registered,
            returned |-> ParseReturns(executed.registered)]

\* The proxies the calls of a manifest make in parse number serial.
RegisteredBy(content, build_file, serial) ==
  ExecFrom(content, build_file, serial, 1, {}).registered

\* The history after a parse.
Logged(log, op, build_file, r, before) ==
  [op |-> op, build_file |-> build_file, raised |-> r.raised, returned |-> r.returned,
   registered |-> r.registered, before |-> before,
   was_added |-> build_file \in before.added_build_files,
   calls |-> log.calls, serial |-> log.serial + 1,
   root |-> log.root, start |-> log.start,
   parsed |-> [bf \in Manifests |->
                 IF bf = build_file THEN log.parsed[bf] + 1 ELSE log.parsed[bf]],
   stored |-> log.stored \cup
                ({r.parser.proxy_by_address[a] : a \in Addresses} \ {NoProxy})]

\* parser.parse_build_file(build_file) called from outside
parse_build_file(build_file) ==
  /\ parser_stack = <<>>
  /\ parser_log.calls < MaxParses
  /\ \E order \in Orders(RegisteredBy(build_files[build_file], build_file,
                                       parser_log.serial + 1)) :
       LET r == ParseBuildFile(parser, build_files[build_file], build_file,
                               parser_log.serial + 1, order)
       IN  /\ parser' = r.parser
           /\ parser_log' = Logged([parser_log EXCEPT !.calls = @ + 1],
                                   "parse_build_file", build_file, r, parser)
  /\ UNCHANGED <<build_files, parser_stack>>
  /\ UNCHANGED notParser

\* The target calls written in the manifests that are parsed one by one.
SomeCalls ==
  {TargetCall(NameAt(i), <<>>) : i \in 1..MaxCalls} \cup
  {[TargetCall("x", <<>>) EXCEPT !.positional = TRUE],
   [TargetCall("x", <<>>) EXCEPT !.build_file = TRUE],
   TargetCall("", <<>>)}

Contents(calls) == UNION {[1..n -> calls] : n \in 0..MaxCalls}

InitParse ==
  /\ EarlierIdle /\ ReportIdle /\ RWBufIdle /\ PoolIdle /\ FinalIdle
  /\ \E content, sibling \in Contents(SomeCalls) :
       build_files = [bf \in Manifests |->
                        IF bf.dir # "a" THEN <<>>
                        ELSE IF bf.file = "BUILD" THEN content ELSE sibling]
  /\ parser = NewParser
  /\ parser_stack = <<>>
  /\ parser_log = NoParserLog

NextParse == \E build_file \in Manifests : parse_build_file(build_file)

SpecParse == InitParse /\ [][NextParse]_vars

\* The last call was parse_build_file and it returned.
ParseReturned == parser_log.op = "parse_build_file" /\ parser_log.raised = "none"

\* C26: parse_build_file(build_file) returns the set of the proxies the
\* manifest registered, one per target call: none for an empty manifest, and
\* each with the name of its call, the address (build_file, name) and the
\* aliased target type.
C26_ParseReturnsRegisteredProxies ==
  ParseReturned =>
    LET content == build_files[parser_log.build_file]
    IN  /\ ~parser_log.returned.is_none
        /\ parser_log.returned.proxies = parser_log.registered
        /\ Cardinality(parser_log.returned.proxies) = Len(content)
        /\ \A i \in 1..Len(content) :
             \E proxy \in parser_log.returned.proxies :
               /\ proxy.name = content[i].name
               /\ proxy.address = AddressOf(parser_log.build_file, content[i].name)
               /\ proxy.target_type = "fake"

\* C27: parsing is idempotent: parse_build_file for a manifest that is already
\* in _added_build_files does not evaluate the manifest again, raises nothing
\* and leaves the three indices as they were.
C27_ParsingIsIdempotent ==
  (parser_log.op = "parse_build_file" /\ parser_log.was_added) =>
    /\ parser_log.raised = "none"
    /\ parser_log.parsed[parser_log.build_file] = 1
    /\ parser.proxy_by_address = parser_log.before.proxy_by_address
    /\ parser.proxies_by_build_file = parser_log.before.proxies_by_build_file
    /\ parser.addresses_by_build_file = parser_log.before.addresses_by_build_file

\* The last parse evaluated its manifest without a rejected call, so that it
\* went on to register the proxies.
ParseRegistered == parser_log.op = "parse_build_file" /\ parser_log.raised # "exec"

\* The last parse made a proxy for an address that was present already, or
\* two proxies for one address.
SecondProxyForAddress ==
  \/ \E proxy \in parser_log.registered :
       parser_log.before.proxy_by_address[proxy.address] # NoProxy
  \/ \E p1, p2 \in parser_log.registered : p1 # p2 /\ p1.address = p2.address

\* C28: registering a second proxy for an address already present (the same
\* name twice in one manifest, or the address of a sibling manifest) fails;
\* calls with different names, none of them known, are all registered; and
\* over the whole run no address is ever mapped to two different proxies.
C28_OneProxyPerAddress ==
  /\ ParseRegistered =>
       IF SecondProxyForAddress
         THEN parser_log.raised = "register"
         ELSE /\ parser_log.raised = "none"
              /\ \A proxy \in parser_log.registered :
                   /\ parser.proxy_by_address[proxy.address] = proxy
                   /\ proxy \in parser.proxies_by_build_file[parser_log.build_file]
                   /\ proxy.address \in parser.addresses_by_build_file[parser_log.build_file]
  /\ \A p1, p2 \in parser_log.stored : p1.address = p2.address => p1 = p2

\* BUILD registered two targets with different names, and then the sibling
\* BUILD.x was refused for a target with one of these names.
C28_Witness ==
  /\ ParseRegistered
  /\ parser_log.build_file = [dir |-> "a", file |-> "BUILD.x"]
  /\ parser_log.raised = "register"
  /\ Cardinality(parser.proxies_by_build_file[[dir |-> "a", file |-> "BUILD"]]) = 2
  /\ \E proxy \in parser_log.registered :
       parser_log.before.proxy_by_address[proxy.address] # NoProxy

\* The call has a positional argument, a build_file keyword or no name.
IsMalformed(call) == call.positional \/ call.build_file \/ call.name = ""

\* The proxy has a name in its kwargs, no build_file key and was made without
\* positional arguments.
IsWellFormed(proxy) ==
  proxy.kwargs.name # "" /\ ~proxy.build_file_kwarg /\ ~proxy.positional

\* C29: a target call with a positional argument, with build_file as a keyword
\* or without name is rejected and adds no proxy to the registered set of the
\* manifest, whose parse fails and stores nothing; every proxy that is
\* registered or stored has name in its kwargs and no build_file key.
C29_MalformedCallsRejected ==
  /\ parser_log.op = "parse_build_file" =>
       LET content == build_files[parser_log.build_file]
           malformed == {i \in 1..Len(content) : IsMalformed(content[i])}
       IN  /\ malformed # {} =>
                /\ parser_log.raised = "exec"
                /\ parser = parser_log.before
                /\ \A i \in malformed : \A proxy \in parser_log.registered : proxy.index < i
                /\ Cardinality(parser_log.registered) < Len(content)
           /\ \A proxy \in parser_log.registered : IsWellFormed(proxy)
  /\ \A proxy \in parser_log.stored : IsWellFormed(proxy)
  /\ \A bf \in Manifests : \A proxy \in parser.proxies_by_build_file[bf] : IsWellFormed(proxy)

\* A manifest with an accepted call followed by a rejected one was parsed,
\* after another manifest had registered a target.
C29_Witness ==
  /\ parser_log.op = "parse_build_file"
  /\ parser_log.raised = "exec"
  /\ Cardinality(parser_log.registered) = 1
  /\ Len(build_files[parser_log.build_file]) = 2
  /\ IsMalformed(build_files[parser_log.build_file][2])
  /\ parser_log.stored # {}

(***************************************************************************)
(* BuildFileParser.add_build_file_spec: the recursion is a stack of        *)
(* frames, each with the manifest it parsed and the dependency specs it    *)
(* has still to look at.                                                   *)
(***************************************************************************)

\* dependency_spec.startswith(':')
StartsWithColon(spec) == Len(spec) > 0 /\ spec[1] = ":"

\* SyntheticAddress(spec).spec_path: the part before the colon.
RECURSIVE SpecPathFrom(_, _)
SpecPathFrom(spec, k) ==
  IF k > Len(spec) \/ spec[k] = ":" THEN ""
  ELSE spec[k] \o SpecPathFrom(spec, k + 1)

SpecPath(spec) == SpecPathFrom(spec, 1)

\* BuildFile(root_dir, relpath): the manifest BUILD of the directory.
BuildFileOf(relpath) == [dir |-> relpath, file |-> "BUILD"]

\* The dependency specs the two loops of add_build_file_spec go through, for
\* the proxies in the order the set is iterated in.
RECURSIVE DependencySpecs(_, _)
DependencySpecs(order, k) ==
  IF k > Len(order) THEN <<>>
  ELSE order[k].kwargs.dependencies \o DependencySpecs(order, k + 1)

\* A slip: the manifest of a dependency spec is always taken as not added.
NotAddedAlways(p, dep_build_file) == TRUE

\* if not dep_build_file in self._added_build_files
NotAdded(p, dep_build_file) == dep_build_file \notin p.added_build_files

\* The first lines of add_build_file_spec(spec): parse the manifest of spec
\* and, if that raises nothing, start the loops over its proxies on top of
\* the frames below.
EnterSpec(log, below, spec) ==
  LET build_file == BuildFileOf(SpecPath(spec))
      serial == log.serial + 1
  IN  \E order \in Orders(RegisteredBy(build_files[build_file], build_file, serial)) :
        LET r == ParseBuildFile(parser, build_files[build_file], build_file, serial, order)
        IN  /\ parser' = r.parser
            /\ parser_log' = Logged(log, "add_build_file_spec", build_file, r, parser)
            /\ IF r.raised # "none"
                 THEN parser_stack' = <<>>
                 ELSE \E target_proxies \in Orders(r.parser.proxies_by_build_file[build_file]) :
                        parser_stack' =
                          Append(below, [build_file |-> build_file,
                                         todo |-> DependencySpecs(target_proxies, 1)])

\* parser.add_build_file_spec(spec) called from outside
add_build_file_spec(spec) ==
  /\ parser_stack = <<>>
  /\ parser_log.calls < MaxParses
  /\ EnterSpec([parser_log EXCEPT !.calls = @ + 1,
                                   !.root = BuildFileOf(SpecPath(spec)),
                                   !.start = parser.added_build_files,
                                   !.parsed = [bf \in Manifests |-> 0]],
               <<>>, spec)
  /\ UNCHANGED build_files
  /\ UNCHANGED notParser

\* One turn of the inner loop of the innermost add_build_file_spec: look at
\* the next dependency spec, or return when there is none left.
add_step ==
  /\ parser_stack # <<>>
  /\ LET depth == Len(parser_stack)
         top == parser_stack[depth]
         below == SubSeq(parser_stack, 1, depth - 1)
     IN  IF top.todo = <<>>
           THEN /\ parser_stack' = below
                /\ UNCHANGED <<parser, parser_log>>
         ELSE LET dependency_spec == Head(top.todo)
                  rest == Append(below, [top EXCEPT !.todo = Tail(@)])
              IN  IF StartsWithColon(dependency_spec)
                    THEN /\ parser_stack' = rest
                         /\ UNCHANGED <<parser, parser_log>>
                  ELSE IF NotAdded(parser, BuildFileOf(SpecPath(dependency_spec)))
                    THEN EnterSpec(parser_log, rest, dependency_spec)
                  ELSE /\ parser_stack' = rest
                       /\ UNCHANGED <<parser, parser_log>>
  /\ UNCHANGED build_files
  /\ UNCHANGED notParser

\* The dependency specs written in the manifests: one relative, one for each
\* directory.
DepSpecs == {<<":", "x">>} \cup {<<d, ":", "x">> : d \in ParserDirs}

\* The contents of a manifest whose calls are all accepted: call number i
\* declares the target NameAt(i) with at most one dependency spec.
LinkedContents ==
  {content \in Contents({TargetCall(NameAt(i), deps) :
                            i \in 1..MaxCalls, deps \in {<<>>} \cup {<<s>> : s \in DepSpecs}}) :
     \A i \in 1..Len(content) : content[i].name = NameAt(i)}

InitAddSpec ==
  /\ EarlierIdle /\ ReportIdle /\ RWBufIdle /\ PoolIdle /\ FinalIdle
  /\ \E in_a \in LinkedContents : \E in_b \in {c \in LinkedContents : Len(c) <= 1} :
       build_files = [bf \in Manifests |->
                        IF bf = BuildFileOf("a") THEN in_a
                        ELSE IF bf = BuildFileOf("b") THEN in_b ELSE <<>>]
  /\ parser = NewParser
  /\ parser_stack = <<>>
  /\ parser_log = NoParserLog

NextAddSpec ==
  \/ \E d \in ParserDirs : parse_build_file(BuildFileOf(d))
  \/ \E d \in ParserDirs : add_build_file_spec(<<d>>)
  \/ add_step

\* The thread that called add_build_file_spec keeps running.
SpecAddSpec == InitAddSpec /\ [][NextAddSpec]_vars /\ WF_vars(add_step)

\* The manifests that the non-relative dependency specs of a manifest name.
Refs(build_file) ==
  LET content == build_files[build_file]
  IN  UNION {{BuildFileOf(SpecPath(content[i].dependencies[j])) :
                j \in {k \in 1..Len(content[i].dependencies) :
                         ~StartsWithColon(content[i].dependencies[k])}} :
               i \in 1..Len(content)}

\* The manifests reached from those in S by dependency specs, not following
\* the specs of the manifests in skip.
RECURSIVE ReachedFrom(_, _)
ReachedFrom(S, skip) ==
  LET next == S \cup UNION {Refs(bf) : bf \in S \ skip}
  IN  IF next = S THEN S ELSE ReachedFrom(next, skip)

\* The last call was add_build_file_spec and it returned.
AddReturned ==
  /\ parser_log.op = "add_build_file_spec"
  /\ parser_stack = <<>>
  /\ parser_log.raised = "none"

\* During and after add_build_file_spec no manifest was parsed twice by it.
ParsedAtMostOnce ==
  parser_log.op = "add_build_file_spec" => \A bf \in Manifests : parser_log.parsed[bf] <= 1

\* A call of add_build_file_spec that is under way comes to an end.
AddTerminates == (parser_stack # <<>>) ~> (parser_stack = <<>>)

\* C30 as stated: add_build_file_spec terminates, also on manifests that
\* reference each other in a cycle; when it returns, _added_build_files has
\* the manifest of spec and every manifest reached from it by non-relative
\* dependency specs; during the call no manifest is parsed twice.
C30_AddsEveryReferencedManifest ==
  /\ [](ParsedAtMostOnce /\
         (AddReturned =>
            ReachedFrom({parser_log.root}, {}) \subseteq parser.added_build_files))
  /\ AddTerminates

\* C30 (amended): add_build_file_spec terminates, also on manifests that
\* reference each other in a cycle; when it returns, _added_build_files has
\* the manifest of spec and every manifest reached from it by non-relative
\* dependency specs without passing through a manifest that was in
\* _added_build_files already when the call began; during the call no
\* manifest is parsed twice.
C30_AddsReferencedThroughNewManifests ==
  /\ [](ParsedAtMostOnce /\
         (AddReturned =>
            ReachedFrom({parser_log.root}, parser_log.start \ {parser_log.root})
              \subseteq parser.added_build_files))
  /\ AddTerminates

\* add_build_file_spec('a') has returned on manifests where a and b name each
\* other and a names c as well: all three are added, b and c by the recursion,
\* each parsed once.
C30_Witness ==
  /\ AddReturned
  /\ parser_log.root = BuildFileOf("a")
  /\ parser_log.start = {}
  /\ {BuildFileOf("b"), BuildFileOf("c")} \subseteq Refs(BuildFileOf("a"))
  /\ BuildFileOf("a") \in Refs(BuildFileOf("b"))
  /\ parser.added_build_files = {BuildFileOf("a"), BuildFileOf("b"), BuildFileOf("c")}
  /\ \A d \in ParserDirs : parser_log.parsed[BuildFileOf(d)] = 1

(***************************************************************************)
(* BuildGraph: self-edges and failed injections                            *)
(***************************************************************************)

\* C31: the graph never has a self-edge: after any sequence of inject_target
\* and inject_dependency calls no address is among its own dependencies or
\* its own dependents.
C31_NoSelfEdge ==
  \A a \in Targets : a \notin dependencies_of(a) /\ a \notin dependents_of(a)

\* C37: an inject_target that fails, because the address is mapped already or
\* because a listed dependency is not in the graph, leaves target_by_address
\* and both edge indices exactly as they were before the call.
C37_FailedInjectTargetChangesNothing ==
  [][(graph_result'.op = "inject_target" /\ graph_result'.err # "") =>
       /\ target_by_address' = target_by_address
       /\ target_dependencies_by_address' = target_dependencies_by_address
       /\ target_dependents_by_address' = target_dependents_by_address]_vars

(***************************************************************************)
(* Group.execute (goal/group.py): the phases a phase depends on are        *)
(* executed first by nested calls; the recursion is a stack of frames.     *)
(* An exception is caught nowhere and ends every frame at once.            *)
(***************************************************************************)

\* A slip: the phase's policy alone decides, whoever holds the lock.
LockedByMeIfSerialize(is_unlocked, serialize) == serialize

\* if context.is_unlocked() and phase.serialize()
LockedByMe(is_unlocked, serialize) == is_unlocked /\ serialize

\* Context.acquire_lock, called by the frame at this depth
AcquireLock(lock, depth) ==
  IF ~lock.held THEN [held |-> TRUE, owner |-> depth] ELSE lock

\* Context.release_lock
ReleaseLock(lock) == IF ~lock.held THEN lock ELSE Unlocked

\* Some frame acquired the lock.
AnyLockedByMe(stack) == \E i \in 1..Len(stack) : stack[i].locked_by_me

\* The exception leaves every frame; the frame that acquired the lock is gone.
Raised(calls, lock, acquired) ==
  /\ group_stack' = <<>>
  /\ group_log' = [group_log EXCEPT !.calls = calls, !.how = "raised",
                                     !.acquired = acquired, !.held_after = lock.held]

\* Group.execute(phase, ...) up to the loop over the dependencies, on top of
\* the frames below.
EnterPhase(calls, below, phase) ==
  IF phase \in group_context.executed
    THEN /\ group_stack' = below
         /\ group_context' = group_context
         /\ group_log' = [group_log EXCEPT !.calls = calls, !.how = "skipped",
                                            !.acquired = FALSE,
                                            !.held_after = group_context.lock.held]
  ELSE LET locked_by_me == LockedByMe(~group_context.lock.held, group_phases[phase].serialize)
           lock == IF locked_by_me THEN AcquireLock(group_context.lock, Len(below) + 1)
                   ELSE group_context.lock
       IN  IF ~group_phases[phase].goals
             THEN /\ group_context' = [group_context EXCEPT !.lock = [lock EXCEPT !.owner = 0]]
                  /\ Raised(calls, lock, locked_by_me \/ AnyLockedByMe(below))
           ELSE /\ group_context' = [group_context EXCEPT !.lock = lock]
                /\ group_stack' = Append(below, [phase |-> phase,
                                                 locked_by_me |-> locked_by_me,
                                                 todo |-> group_phases[phase].deps])
                /\ group_log' = [group_log EXCEPT !.calls = calls, !.how = "running"]

\* Group.execute(phase, tasks_by_goal, context, executed) called from outside
group_execute(phase) ==
  /\ group_stack = <<>>
  /\ group_log.calls < MaxExecutes
  /\ EnterPhase(group_log.calls + 1, <<>>, phase)
  /\ UNCHANGED group_phases
  /\ UNCHANGED notGroup

\* The innermost Group.execute goes on: the next dependency, or, when there is
\* none left, the tasks of the phase, one of which may raise, and the release.
group_step ==
  /\ group_stack # <<>>
  /\ LET depth == Len(group_stack)
         top == group_stack[depth]
         below == SubSeq(group_stack, 1, depth - 1)
     IN  IF top.todo # <<>>
           THEN EnterPhase(group_log.calls, Append(below, [top EXCEPT !.todo = Tail(@)]),
                           Head(top.todo))
         ELSE \E task_raises \in BOOLEAN :
                LET executed == group_context.executed \cup {top.phase}
                    lock == group_context.lock
                IN  IF task_raises
                      THEN /\ group_context' = [lock |-> [lock EXCEPT !.owner = 0],
                                                executed |-> executed]
                           /\ Raised(group_log.calls, lock, AnyLockedByMe(group_stack))
                    ELSE /\ group_context' =
                              [lock |-> IF top.locked_by_me THEN ReleaseLock(lock) ELSE lock,
                               executed |-> executed]
                         /\ group_stack' = below
                         /\ group_log' =
                              [group_log EXCEPT
                                 !.how = "returned",
                                 !.acquired = top.locked_by_me,
                                 !.held_after = lock.held /\ ~top.locked_by_me,
                                 !.foreign_release =
                                    @ \/ (top.locked_by_me /\ lock.held /\ lock.owner # depth)]
  /\ UNCHANGED group_phases
  /\ UNCHANGED notGroup

\* The phases a phase may depend on, in the order of goal.dependencies.
PhaseConfigs(p) ==
  [serialize : BOOLEAN, goals : BOOLEAN, deps : SeqsNoDup(1..(p - 1), MaxDeps)]

RECURSIVE PhaseLists(_)

\* The configurations of the phases 1..p.
PhaseLists(p) ==
  IF p = 0 THEN {<<>>}
  ELSE {Append(earlier, config) : earlier \in PhaseLists(p - 1), config \in PhaseConfigs(p)}

InitGroup ==
  /\ GroupOthersIdle
  /\ group_phases \in PhaseLists(NumPhases)
  /\ group_context = [lock |-> Unlocked, executed |-> {}]
  /\ group_stack = <<>>
  /\ group_log = NoGroupLog

NextGroup ==
  \/ \E phase \in Phases : group_execute(phase)
  \/ group_step

SpecGroup == InitGroup /\ [][NextGroup]_vars

\* A call of Group.execute has just finished, by returning or by raising,
\* and it, or a call it was nested in that finished with it, had acquired
\* the lock.
FinishedWithLock(how) == group_log.how = how /\ group_log.acquired

\* C32 as stated: a call of Group.execute that acquired the lock for a phase
\* that declares serialize has released it when it finishes, by returning or
\* by a task raising; a nested call never releases the lock of an enclosing
\* call.
C32_LockReleasedOnEveryExit ==
  /\ (FinishedWithLock("returned") \/ FinishedWithLock("raised")) => ~group_log.held_after
  /\ ~group_log.foreign_release

\* C32 (amended): a call of Group.execute that acquired the lock has released
\* it when it returns; when a task raises, or the phase has no goals, the
\* lock is not released and stays held as the exception leaves the call; a
\* nested call never releases the lock of an enclosing call.
C32_LockReleasedOnReturnOnly ==
  /\ FinishedWithLock("returned") => ~group_log.held_after
  /\ FinishedWithLock("raised") => group_log.held_after
  /\ ~group_log.foreign_release

\* A call for a phase that declares serialize has returned after a nested
\* call for a phase that declares serialize too, and the lock is free.
C32_Witness ==
  /\ FinishedWithLock("returned")
  /\ group_stack = <<>>
  /\ ~group_context.lock.held
  /\ \E p, q \in group_context.executed :
       /\ p \in Range(group_phases[q].deps)
       /\ group_phases[p].serialize /\ group_phases[q].serialize

(***************************************************************************)
(* ExclusivesMapping: the classpaths of the exclusives groups.  The class  *)
(* is used by tasks/ivy_resolve.py and tasks/jvm_compile/java_compile.py   *)
(* and exercised by tests/python/twitter/pants/tasks/                      *)
(* test_check_exclusives.py; the classpath of a group is a ClassPath       *)
(* (tasks/jvm_compile/classpath.py).                                       *)
(***************************************************************************)

\* ClassPath.add_element: self._elements is an OrderedSet, so an element
\* that is already there stays where it is.
AddElementAlways(elements, element) == Append(elements, element)

AddElement(elements, element) ==
  IF element \in Range(elements) THEN elements ELSE Append(elements, element)

RECURSIVE IsCompatibleFrom(_, _, _)

\* The axes are compared one after the other: an axis of mod_key fits when
\* it has the value of other_key or is "<none>".
IsCompatibleFrom(mod_key, other_key, k) ==
  IF k > NumAxes THEN TRUE
  ELSE IF mod_key[k] # other_key[k] /\ mod_key[k] # "<none>" THEN FALSE
  ELSE IsCompatibleFrom(mod_key, other_key, k + 1)

IsCompatibleEitherNone(mod_key, other_key) ==
  \A k \in Axes :
    mod_key[k] = other_key[k] \/ mod_key[k] = "<none>" \/ other_key[k] = "<none>"

\* ExclusivesMapping._is_compatible(mod_key, other_key)
IsCompatible(mod_key, other_key) == IsCompatibleFrom(mod_key, other_key, 1)

\* The group key None of an addition that is made for every group.
NoGroupKey == <<>>

\* ExclusivesMapping.add_to_compatible_classpaths(group_key, [element])
AddToCompatibleClasspaths(classpaths, group_key, element) ==
  [g \in GroupKeys |->
     IF group_key = NoGroupKey \/ IsCompatible(group_key, g)
     THEN AddElement(classpaths[g], element)
     ELSE classpaths[g]]

\* ExclusivesMapping.get_classpath_for_group(group_key)
get_classpath_for_group(group_key) == mapping_classpaths[group_key]

is_compatible(mod_key, other_key) ==
  /\ mapping_compat' = [called |-> TRUE, mod_key |-> mod_key, other_key |-> other_key,
                        result |-> IsCompatible(mod_key, other_key)]
  /\ UNCHANGED <<mapping_classpaths, mapping_log, notMapping>>

add_to_compatible_classpaths(group_key, element) ==
  /\ Len(mapping_log.added) < MaxAdds
  /\ mapping_classpaths' = AddToCompatibleClasspaths(mapping_classpaths, group_key, element)
  /\ mapping_log' = [base |-> mapping_log.base,
                     added |-> Append(mapping_log.added,
                                      [group_key |-> group_key, element |-> element,
                                       before |-> mapping_classpaths])]
  /\ UNCHANGED <<mapping_compat, notMapping>>

\* _set_base_classpath_for_group has been called for every group.
InitMapping ==
  /\ MappingOthersIdle
  /\ \E base \in {<<>>, <<"b1">>, <<"b1", "b2">>} :
       /\ mapping_classpaths = [g \in GroupKeys |-> base]
       /\ mapping_log = [base |-> base, added |-> <<>>]
  /\ mapping_compat = NoCompat

\* Elements are added to the classpaths of the groups.
NextMapping ==
  \E group_key \in GroupKeys \cup {NoGroupKey}, element \in AddedElements :
    add_to_compatible_classpaths(group_key, element)

SpecMapping == InitMapping /\ [][NextMapping]_vars

\* Group keys are compared.
NextCompatible ==
  \E mod_key, other_key \in GroupKeys : is_compatible(mod_key, other_key)

SpecCompatible == InitMapping /\ [][NextCompatible]_vars

\* The two keys agree on every axis on which the first one has a value.
FirstFits(mod_key, other_key) ==
  \A k \in Axes : mod_key[k] = other_key[k] \/ mod_key[k] = "<none>"

\* On every axis the two keys are equal or one of the two is "<none>".
EitherFits(mod_key, other_key) ==
  \A k \in Axes :
    mod_key[k] = other_key[k] \/ mod_key[k] = "<none>" \/ other_key[k] = "<none>"

\* The pairs test_classpath_compatibility expects to be compatible, among the
\* keys of its targets a, b, c and d.
TestKeys == {<<"1", "1">>, <<"1", "<none>">>, <<"2", "2">>, <<"<none>", "<none>">>}

TestCompatible ==
  {<<k, k>> : k \in TestKeys}
    \cup {<<(<<"1", "<none>">>), (<<"1", "1">>)>>}
    \cup {<<(<<"<none>", "<none>">>), k>> : k \in TestKeys}

Reached(Reaches(_, _), g) ==
  {i \in 1..Len(mapping_log.added) :
     mapping_log.added[i].group_key = NoGroupKey \/ Reaches(mapping_log.added[i].group_key, g)}

\* The classpath of every group is its base followed by the elements that
\* reached it, each once, in the order in which they first reached it; an
\* addition of an element that is already there changes nothing.
ClasspathsFollow(Reaches(_, _)) ==
  \A g \in GroupKeys :
    LET classpath == get_classpath_for_group(g)
        reached == Reached(Reaches, g)
        First(x) == CHOOSE i \in reached :
                      mapping_log.added[i].element = x
                        /\ \A j \in reached : mapping_log.added[j].element = x => i <= j
    IN /\ IsPrefix(mapping_log.base, classpath)
       /\ Range(classpath) = Range(mapping_log.base) \cup {mapping_log.added[i].element : i \in reached}
       /\ \A i, j \in 1..Len(classpath) : classpath[i] = classpath[j] => i = j
       /\ \A i, j \in (Len(mapping_log.base) + 1)..Len(classpath) :
            i < j => First(classpath[i]) < First(classpath[j])
       /\ \A i \in 1..Len(mapping_log.added) :
            LET after == IF i = Len(mapping_log.added) THEN mapping_classpaths
                         ELSE mapping_log.added[i + 1].before
            IN mapping_log.added[i].element \in Range(mapping_log.added[i].before[g]) =>
                 after[g] = mapping_log.added[i].before[g]

Flavors == {"goal0", "goal1", "other"}

\* The orders of the elements of a set.
Orderings(S) == {s \in SeqsNoDup(S, Cardinality(S)) : Range(s) = S}

\* context.targets(predicate): the targets of the context that satisfy it, in
\* the order of the context.
ContextTargets(targets, satisfying) == SelectSeq(targets, LAMBDA t : t \in satisfying)

\* list(reversed(InternalTarget.coalesce_targets(internal, discriminator))):
\* the internal targets in an order that the dependencies and the
\* discriminator fix; any order of them here.
Coalesced(internal) == Orderings(Range(internal))

RECURSIVE FlavorChunks(_, _, _, _, _, _)

\* for i, target in enumerate(coalesced): a chunk ends where the flavor
\* changes; the last chunk is closed after the loop.
FlavorChunks(coalesced, discriminator, i, chunk_start, flavor, chunks) ==
  IF i > Len(coalesced)
  THEN IF chunk_start <= Len(coalesced)
       THEN Append(chunks, SubSeq(coalesced, chunk_start, Len(coalesced)))
       ELSE chunks
  ELSE LET target_flavor == discriminator[coalesced[i]] IN
       IF target_flavor # flavor /\ i > chunk_start
       THEN FlavorChunks(coalesced, discriminator, i + 1, i, target_flavor,
                         Append(chunks, SubSeq(coalesced, chunk_start, i - 1)))
       ELSE FlavorChunks(coalesced, discriminator, i + 1, chunk_start, target_flavor, chunks)

\* The body of `for excl_chunk_key in excl_chunks`: chunk_targets is assigned
\* and not used; coalesced and rest are taken from all targets of the context.
ChunksForKey(chunk_targets, targets, is_internal, coalesced, discriminator) ==
  LET rest == ContextTargets(targets, Range(targets) \ is_internal)
      chunks == IF rest # <<>> THEN <<rest>> ELSE <<>>
  IN FlavorChunks(coalesced, discriminator, 1, 1, "None", chunks)

RECURSIVE AllChunks(_, _, _, _, _, _)

\* all_chunks += chunks, once for every key of excl_chunks
AllChunks(excl_chunks, targets, is_internal, coalesced, discriminator, all_chunks) ==
  IF excl_chunks = {} THEN all_chunks
  ELSE LET excl_chunk == CHOOSE c \in excl_chunks : TRUE IN
       AllChunks(excl_chunks \ {excl_chunk}, targets, is_internal, coalesced, discriminator,
                 all_chunks \o ChunksForKey(excl_chunk.members, targets, is_internal,
                                            coalesced, discriminator))

\* Group._create_chunks(context, goals), for the targets of the context, the
\* targets that are internal and the discriminator that goals define.
create_chunks(targets, is_internal, discriminator) ==
  LET conflicting_keys == ConflictingKeys(targets) IN
  /\ create_result.status = "none"
  /\ IF conflicting_keys # <<>> /\ \E t \in Range(targets) : exclusives[t].isNone
     THEN create_result' = [status |-> "TypeError", targets |-> targets,
                            excl_chunks |-> {}, all_chunks |-> <<>>]
     ELSE \E tks \in TargetKeyLists(targets, conflicting_keys) :
          \E coalesced \in Coalesced(ContextTargets(targets, is_internal)) :
            LET excl_chunks == ChunksOf(targets, tks) IN
            create_result' = [status |-> "returned", targets |-> targets,
                              excl_chunks |-> excl_chunks,
                              all_chunks |-> AllChunks(excl_chunks, targets, is_internal,
                                                       coalesced, discriminator, <<>>)]
  /\ UNCHANGED notChunker

\* The targets of the context as they stand when the chunks are created: no
\* target depends on another, each declares a value for one key at most, and
\* the last one may not have been propagated.
InitCreateChunks ==
  /\ GraphIdle /\ WorkIdle /\ CacheIdle /\ CompileIdle /\ SplitIdle /\ LaterIdle
  /\ SortIdle
  /\ declared_exclusives \in
       [Targets -> {e \in [Keys -> SUBSET Values] :
                      /\ \A k \in Keys : Cardinality(e[k]) <= 1
                      /\ Cardinality({k \in Keys : e[k] # {}}) <= 1}]
  /\ \E unpropagated \in {{}, {NumTargets}} :
       exclusives = [t \in Targets |->
                       IF t \in unpropagated THEN NoExclusives ELSE propagate_exclusives(t)]
  /\ chunks_result = [status |-> "none", targets |-> <<>>, chunks |-> {}]
  /\ execute_result = [status |-> "none", targets |-> <<>>, signal_error |-> FALSE,
                       warnings |-> 0]

NextCreateChunks ==
  \E targets \in SeqsNoDup(Targets, MaxInput) :
  \E is_internal \in SUBSET Range(targets) :
  \E discriminator \in [is_internal -> Flavors] :
    create_chunks(targets, is_internal, discriminator)

SpecCreateChunks == InitCreateChunks /\ [][NextCreateChunks]_vars

\* C35: every chunk that _create_chunks returns holds targets of one
\* exclusives chunk only, and every target of the context is in exactly one
\* of the returned chunks.
C35_ChunksKeepExclusivesApart ==
  create_result.status = "returned" =>
    /\ \A i \in 1..Len(create_result.all_chunks) :
         \E c \in create_result.excl_chunks :
           Range(create_result.all_chunks[i]) \subseteq Range(c.members)
    /\ \A t \in Range(create_result.targets) :
         Cardinality({i \in 1..Len(create_result.all_chunks) :
                        t \in Range(create_result.all_chunks[i])}) = 1

(***************************************************************************)
(* StoppableThread and PeriodicThread (common/threading/__init__.py)       *)
(***************************************************************************)

\* StoppableThread.__init__ / PeriodicThread.__init__: _stopped = False.
\* post_target: one was given; args: args or kwargs are not empty.
NewThread(class, post_target, args) ==
  [class |-> class, post_target |-> post_target, args |-> args, stopped |-> FALSE,
   pc |-> "new"]

\* Thread.start()
thread_start ==
  /\ thread.pc = "new"
  /\ thread' = [thread EXCEPT !.pc = "run"]
  /\ UNCHANGED <<stoppers, thread_log, notThread>>

\* Thread.run(): self._target(*self._args, **self._kwargs), where _target is
\* stoppable_target, which takes no arguments: a TypeError ends the thread
\* when args or kwargs were given.
thread_run ==
  /\ thread.pc = "run"
  /\ thread' = [thread EXCEPT !.pc = IF thread.args THEN "exited" ELSE "loop"]
  /\ UNCHANGED <<stoppers, thread_log, notThread>>

\* while True: target(*args, **kwargs) begins
target_begin ==
  /\ thread.pc = "loop"
  /\ thread' = [thread EXCEPT !.pc = "target"]
  /\ thread_log' =
       [begun_after_stop |->
          IF thread.stopped THEN (IF thread_log.begun_after_stop < 2
                                  THEN thread_log.begun_after_stop + 1 ELSE 2)
          ELSE thread_log.begun_after_stop,
        begun_after_return |->
          thread_log.begun_after_return \/ \E c \in Stoppers : stoppers[c] = "returned"]
  /\ UNCHANGED <<stoppers, notThread>>

\* target returns, or raises and ends the thread; periodic_target goes on to
\* time.sleep(period_secs)
target_end ==
  /\ thread.pc = "target"
  /\ \E raises \in BOOLEAN :
       thread' = [thread EXCEPT !.pc =
                    IF raises THEN "exited"
                    ELSE IF thread.class = "PeriodicThread" THEN "sleep"
                    ELSE IF thread.post_target THEN "post_target" ELSE "check"]
  /\ UNCHANGED <<stoppers, thread_log, notThread>>

\* time.sleep(period_secs) returns
sleep_end ==
  /\ thread.pc = "sleep"
  /\ thread' = [thread EXCEPT !.pc = IF thread.post_target THEN "post_target" ELSE "check"]
  /\ UNCHANGED <<stoppers, thread_log, notThread>>

\* if post_target: post_target()
post_target_end ==
  /\ thread.pc = "post_target"
  /\ \E raises \in BOOLEAN :
       thread' = [thread EXCEPT !.pc = IF raises THEN "exited" ELSE "check"]
  /\ UNCHANGED <<stoppers, thread_log, notThread>>

\* A loop that does not look at _stopped.
ReturnsNever(stopped) == FALSE

\* with self._lock: if self._stopped: return
Returns(stopped) == stopped

check_stopped ==
  /\ thread.pc = "check"
  /\ thread' = [thread EXCEPT !.pc = IF Returns(thread.stopped) THEN "exited" ELSE "loop"]
  /\ UNCHANGED <<stoppers, thread_log, notThread>>

\* stop(): with self._lock: self._stopped = True; then join() begins.  join()
\* of a thread that was not started raises RuntimeError.
stop(c) ==
  /\ stoppers[c] = "idle"
  /\ thread' = [thread EXCEPT !.stopped = TRUE]
  /\ stoppers' = [stoppers EXCEPT ![c] = IF thread.pc = "new" THEN "RuntimeError" ELSE "join"]
  /\ UNCHANGED <<thread_log, notThread>>

\* self.join() returns once the thread has ended
join_end(c) ==
  /\ stoppers[c] = "join"
  /\ thread.pc = "exited"
  /\ stoppers' = [stoppers EXCEPT ![c] = "returned"]
  /\ UNCHANGED <<thread, thread_log, notThread>>

thread_step ==
  \/ thread_run
  \/ target_begin
  \/ target_end
  \/ sleep_end
  \/ post_target_end
  \/ check_stopped

InitThread ==
  /\ ThreadOthersIdle
  /\ \E class \in {"StoppableThread", "PeriodicThread"}, post_target, args \in BOOLEAN :
       /\ class = "PeriodicThread" => ~post_target
       /\ thread = NewThread(class, post_target, args)
  /\ stoppers = [c \in Stoppers |-> "idle"]
  /\ thread_log = NoThreadLog

NextThread ==
  \/ thread_start
  \/ thread_step
  \/ \E c \in Stoppers : stop(c)
  \/ \E c \in Stoppers : join_end(c)

\* The thread is scheduled, its target and post_target come back, and a
\* join() whose thread has ended returns.
SpecThread ==
  /\ InitThread
  /\ [][NextThread]_vars
  /\ WF_vars(thread_step)
  /\ \A c \in Stoppers : WF_vars(join_end(c))

\* At most one invocation of target begins after _stopped was set, and none
\* after a stop() has returned.
StopsInvoking ==
  /\ thread_log.begun_after_stop <= 1
  /\ ~thread_log.begun_after_return

\* stop() was called on a thread that had been started.
StopCalled == \E c \in Stoppers : stoppers[c] = "join"

\* The thread has ended and every stop() that was called on it after its
\* start has returned.
StopReturned == thread.pc = "exited" /\ \A c \in Stoppers : stoppers[c] # "join"

\* C36: after stop() on a started thread whose target terminates, at most one
\* further invocation of target begins, the thread ends and stop() returns;
\* after stop() has returned, target is not invoked again.
C36_StopEndsTheThread == []StopsInvoking /\ (StopCalled ~> StopReturned)

\* stop() has returned on a thread that began one more invocation of its
\* target after _stopped was set.
C36_Witness ==
  /\ \E c \in Stoppers : stoppers[c] = "returned"
  /\ thread_log.begun_after_stop = 1
  /\ thread.pc = "exited"

(***************************************************************************)
(* ScalaCompile._merge_artifact and the per-target classes dirs            *)
(***************************************************************************)

\* C38: _merge_artifact writes beneath the merged classes dir only: merging
\* the per-target artifacts creates or links no directory and no class file
\* inside the classes dir of a target, whatever the packages of the targets.
C38_MergeWritesBeneathMergedOnly ==
  [][(split_pc.at = "processed" /\ split_pc'.at = "remerged") =>
       disk'.targets = disk.targets]_vars

(***************************************************************************)
(* LocalArtifactCache.try_insert failing in DirectoryArtifact.collect      *)
(***************************************************************************)

\* The try_insert of workspace w raised in the loop of collect.
FailedCollecting(w) ==
  /\ cache_calls[w].mode = "try_insert"
  /\ cache_calls[w].pc = "done"
  /\ cache_calls[w].result = "raised"
  /\ cache_calls[w].i \in 1..Len(cache_calls[w].paths)

\* Up to and including the failure no step of the call changes has(k) or the
\* files use_cached_files(k) extracts.
KeptWhileCollecting ==
  [][cache_calls[1].pc \in {"rm_tmp", "collect"} =>
       /\ (CacheDir \in cache_dirs') = (CacheDir \in cache_dirs)
       /\ TreeOf(cache_fs', CacheDir) = TreeOf(cache_fs, CacheDir)]_vars

\* C39: when try_insert(k, paths) fails while it collects the files into the
\* temporary directory, the artifact cached for k before the call is still
\* there and unchanged: has(k) has its earlier value and use_cached_files(k)
\* extracts the old file set.
C39_FailedCollectKeepsArtifact ==
  /\ KeptWhileCollecting
  /\ [](FailedCollecting(1) =>
          \/ ~has(CacheKey) /\ FilesUnder(cache_fs, CacheDir) = {}
          \/ has(CacheKey) /\ TreeOf(cache_fs, CacheDir) = EarlierArtifact)

\* A try_insert over an earlier artifact raised in collect after it had
\* copied a file into the temporary directory; the earlier artifact is there.
C39_Witness ==
  /\ FailedCollecting(1)
  /\ cache_calls[1].i = 2
  /\ FilesUnder(cache_fs, TmpDir) # {}
  /\ has(CacheKey)
  /\ TreeOf(cache_fs, CacheDir) = EarlierArtifact

(***************************************************************************)
(* Report.write around Report.end_workunit (reporting/report.py)           *)
(***************************************************************************)

\* A call of end_workunit ended: it raised, or it removed a buffer.
EndWorkunitEnded ==
  \/ report_log'.raised = "end_workunit" /\ report_log.raised # "end_workunit"
  \/ \E u \in ReportUnits : report_rwbufs[u].registered /\ ~report_rwbufs'[u].registered

====
